---- MODULE Spec2Model ----
(***************************************************************************)
(* A model of app.py: the question importer (normalize_question,           *)
(* normalize_correct_answers, import_questions), the wrong-answer store    *)
(* (update_wrong_answers) and the test-session handlers (new_test, review, *)
(* take_test, submit_test, show_results).                                  *)
(*                                                                         *)
(* Data encoding.                                                          *)
(*   A Python str is a sequence of one-character strings: "Q1" is          *)
(*   <<"Q", "1">>, so that strip(), lower(), upper(), str() and sorted()   *)
(*   are computed character by character.                                  *)
(*   A JSON value (what json.load returns) is a tagged record:             *)
(*     [t |-> "none"], [t |-> "bool", v |-> TRUE], [t |-> "int", v |-> 3], *)
(*     [t |-> "float", v |-> 15]  (the value in tenths: 1.5),              *)
(*     [t |-> "str", v |-> <<"a">>], [t |-> "list", v |-> <<...>>],        *)
(*     [t |-> "dict", v |-> << [k |-> key, v |-> value], ... >>]           *)
(*   a dict being its items in insertion order, with distinct str keys.    *)
(*   A stored (canonical) question is the record                           *)
(*     [id, question, choices, correct_answers, domain, comment]           *)
(*   with str fields, choices a sequence of str and correct_answers a      *)
(*   sequence of PyInt and PyBool values (a JSON true/false given as an    *)
(*   answer stays in that list as the bool it is, equal to 1 or 0).        *)
(***************************************************************************)
EXTENDS Integers, Sequences, FiniteSets, TLC

VARIABLES
    questions,      \* data/questions.json: the stored questions load_json reads from it
    wrong,          \* data/wrong_questions.json: the wrong-answer records load_json reads
    current_test,   \* session["current_test"], or NoValue
    last_results,   \* session["last_results"], or NoValue
    clock,          \* the reading of datetime.utcnow(), in half seconds (even: a whole second)
    request,        \* the last call or request: the handler and its inputs
    response,       \* what that call or request returned to its caller
    requests,       \* history: the number of requests served so far
    streak,         \* history: per question id, the updates since the last correct one
    lastSelected,   \* history: per question id, the selection of the last incorrect update
    reimport,       \* history: how the last import relates to the import before it
    calls,          \* per overlapping call: its position, its inputs and what it loaded
    base,           \* history: the two files as they were before the overlapping calls
    earlier,        \* history: the pair of calls that overlapped before these, and
                    \* whether the change of one of them was lost
    torn            \* per file: whether it holds JSON, and its length where it holds none

vars == <<questions, wrong, current_test, last_results, clock, request, response,
          requests, streak, lastSelected, reimport, calls, base, earlier, torn>>

----------------------------------------------------------------------------
(* Bounds of the model. *)

\* import_questions is called with payloads of at most this many records
MaxBatch == 2
\* update_wrong_answers is not called on a record whose wrong_count reached this
MaxWrongCount == 2
\* the clock stops advancing at this reading
MaxClock == 2
\* the application specification follows the first requests of a behaviour, this many
MaxRequests == 6

----------------------------------------------------------------------------
(* JSON values as Python sees them: the type in field t, the value in field v. *)

PyNone == [t |-> "none"]
PyBool(b) == [t |-> "bool", v |-> b]
PyInt(i) == [t |-> "int", v |-> i]
PyFloat(tenths) == [t |-> "float", v |-> tenths]
PyStr(s) == [t |-> "str", v |-> s]
PyList(l) == [t |-> "list", v |-> l]
PyDict(items) == [t |-> "dict", v |-> items]

----------------------------------------------------------------------------
(* Characters and strings. *)

UpperCase == <<"A", "B", "C", "D", "E", "F", "G", "H", "I", "J", "K", "L", "M",
               "N", "O", "P", "Q", "R", "S", "T", "U", "V", "W", "X", "Y", "Z">>

LowerCase == <<"a", "b", "c", "d", "e", "f", "g", "h", "i", "j", "k", "l", "m",
               "n", "o", "p", "q", "r", "s", "t", "u", "v", "w", "x", "y", "z">>

DigitChars == <<"0", "1", "2", "3", "4", "5", "6", "7", "8", "9">>

\* The characters of the model, in code point order (what sorted() compares).
CharOrder == <<" ", "-", ".">> \o DigitChars \o UpperCase \o <<"_">> \o LowerCase

\* The characters str.strip() removes (of the model's characters).
WhiteSpace == {" "}

RangeOf(s) == {s[i] : i \in DOMAIN s}

IndexIn(c, table) == CHOOSE i \in DOMAIN table : table[i] = c

UpperSet == RangeOf(UpperCase)
LowerSet == RangeOf(LowerCase)
DigitSet == RangeOf(DigitChars)

\* ord(c), up to the order of the model's characters
OrdOf == [c \in RangeOf(CharOrder) |-> IndexIn(c, CharOrder)]
Ord(c) == OrdOf[c]

\* The letter's position in the alphabet, from 0: ord(c) - ord("A") for a capital
LetterIndex == [c \in UpperSet |-> IndexIn(c, UpperCase) - 1]

\* The digit's value
DigitValue == [c \in DigitSet |-> IndexIn(c, DigitChars) - 1]

LowerOf == [c \in UpperSet |-> LowerCase[IndexIn(c, UpperCase)]]
UpperOf == [c \in LowerSet |-> UpperCase[IndexIn(c, LowerCase)]]

CharLower(c) == IF c \in UpperSet THEN LowerOf[c] ELSE c

CharUpper(c) == IF c \in LowerSet THEN UpperOf[c] ELSE c


\* `name = e` once, for the rest of the computation F: e is evaluated a single time
\* and F takes its value, as a Python assignment does.
Bind(e, F(_)) == CHOOSE y \in {F(value) : value \in {e}} : TRUE

\* str.lower()
StrLower(s) == IF s = <<>> THEN <<>> ELSE [i \in 1..Len(s) |-> CharLower(s[i])]

\* str.upper()
StrUpper(s) == IF s = <<>> THEN <<>> ELSE [i \in 1..Len(s) |-> CharUpper(s[i])]

\* str.strip()
Strip(s) ==
    IF \A i \in DOMAIN s : s[i] \in WhiteSpace THEN <<>>
    ELSE SubSeq(s, CHOOSE i \in DOMAIN s :
                      s[i] \notin WhiteSpace /\ \A j \in 1..(i - 1) : s[j] \in WhiteSpace,
                   CHOOSE i \in DOMAIN s :
                      s[i] \notin WhiteSpace /\ \A j \in (i + 1)..Len(s) : s[j] \in WhiteSpace)

\* a < b for two str, as Python compares them (by code point, then by length)
StrLess(a, b) ==
    \E i \in 1..(Len(b)) :
        /\ \A j \in 1..(i - 1) : j <= Len(a) /\ a[j] = b[j]
        /\ i > Len(a) \/ Ord(a[i]) < Ord(b[i])

\* str(n) for a natural number n
RECURSIVE NatStr(_)
NatStr(n) ==
    IF n < 10 THEN <<DigitChars[n + 1]>>
    ELSE NatStr(n \div 10) \o <<DigitChars[(n % 10) + 1]>>

\* str(i) for an integer i
IntStr(i) == IF i < 0 THEN <<"-">> \o NatStr(-i) ELSE NatStr(i)

\* The number a str of digits writes.
RECURSIVE DigitsValue(_)
DigitsValue(s) ==
    IF s = <<>> THEN 0
    ELSE 10 * DigitsValue(SubSeq(s, 1, Len(s) - 1)) + DigitValue[s[Len(s)]]

\* The digits of an integer literal: a digit, then digits, each one optionally
\* preceded by a single underscore (int() takes "1_0" and refuses "_1", "1_", "1__0").
IsDigits(s) ==
    /\ s # <<>>
    /\ \A i \in DOMAIN s :
          \/ s[i] \in DigitSet
          \/ /\ s[i] = "_"
             /\ 1 < i /\ i < Len(s)
             /\ s[i - 1] \in DigitSet /\ s[i + 1] \in DigitSet

\* The literal without its underscores
WithoutUnderscores(s) == SelectSeq(s, LAMBDA c : c # "_")

\* int(s) of a stripped str: digits after an optional minus sign
IntOfBody(body) ==
    IF body = <<>> THEN [ok |-> FALSE]
    ELSE IF Head(body) = "-"
    THEN IF IsDigits(Tail(body))
         THEN [ok |-> TRUE, v |-> -DigitsValue(WithoutUnderscores(Tail(body)))]
         ELSE [ok |-> FALSE]
    ELSE IF IsDigits(body)
    THEN [ok |-> TRUE, v |-> DigitsValue(WithoutUnderscores(body))]
    ELSE [ok |-> FALSE]

\* int(s) of a form value: [ok |-> TRUE, v |-> n], or [ok |-> FALSE] where int()
\* raises ValueError. Surrounding whitespace is accepted.
ParseInt(s) == Bind(Strip(s), LAMBDA body : IntOfBody(body))

\* sorted(S) for a finite set of integers
SortedInts(S) ==
    Bind(S, LAMBDA V :
        IF V = {} THEN <<>>
        ELSE [i \in 1..Cardinality(V) |->
                CHOOSE m \in V : Cardinality({y \in V : y < m}) = i - 1])

\* sorted(S) for a finite set of str
SortedStrs(S) ==
    Bind(S, LAMBDA V :
        IF V = {} THEN <<>>
        ELSE [i \in 1..Cardinality(V) |->
                CHOOSE m \in V : Cardinality({y \in V : StrLess(y, m)}) = i - 1])

----------------------------------------------------------------------------
(* Python's operations on these values. *)

\* bool(x): the truth value the `or` chains and the `if not` tests look at
Truthy(x) ==
    CASE x.t = "none" -> FALSE
      [] x.t = "bool" -> x.v
      [] x.t \in {"int", "float"} -> x.v # 0
      [] x.t \in {"str", "list", "dict"} -> x.v # <<>>

\* a or b or ...: the first operand that is true, the last one when none is
FirstTruthy(operands) ==
    Bind(operands, LAMBDA xs :
        IF \E i \in DOMAIN xs : Truthy(xs[i])
        THEN xs[CHOOSE i \in DOMAIN xs : Truthy(xs[i]) /\ \A j \in 1..(i - 1) : ~Truthy(xs[j])]
        ELSE xs[Len(xs)])

\* a or b
PyOr(a, b) == FirstTruthy(<<a, b>>)


\* isinstance(x, int): a bool is an int
IsInt(x) == x.t \in {"int", "bool"}

\* the integer an int or a bool is
IntOf(x) == IF x.t = "bool" THEN (IF x.v THEN 1 ELSE 0) ELSE x.v

\* str(x), for the values whose str() the model computes
StrOf(x) ==
    CASE x.t = "str" -> x.v
      [] x.t = "int" -> IntStr(x.v)
      [] x.t = "bool" -> IF x.v THEN <<"T", "r", "u", "e">> ELSE <<"F", "a", "l", "s", "e">>
      [] x.t = "none" -> <<"N", "o", "n", "e">>
      [] x.t = "float" ->
            (IF x.v < 0 THEN <<"-">> ELSE <<>>)
            \o NatStr((IF x.v < 0 THEN -x.v ELSE x.v) \div 10) \o <<".">>
            \o NatStr((IF x.v < 0 THEN -x.v ELSE x.v) % 10)

\* d.get(key, default) for a dict d
GetDefault(d, key, default) ==
    IF \E i \in DOMAIN d.v : d.v[i].k = key
    THEN d.v[CHOOSE i \in DOMAIN d.v : d.v[i].k = key].v
    ELSE default

\* d.get(key)
Get(d, key) == GetDefault(d, key, PyNone)

\* list(d.values())
DictValues(d) == IF d.v = <<>> THEN <<>> ELSE [i \in 1..Len(d.v) |-> d.v[i].v]

\* [d[key] for key in sorted(d.keys())]
DictValuesByKey(d) ==
    Bind(SortedStrs({d.v[i].k : i \in DOMAIN d.v}), LAMBDA keys :
        IF keys = <<>> THEN <<>>
        ELSE [i \in 1..Len(keys) |-> Get(d, keys[i])])

\* The keys the program looks up.
K_question == <<"q", "u", "e", "s", "t", "i", "o", "n">>
K_text == <<"t", "e", "x", "t">>
K_prompt == <<"p", "r", "o", "m", "p", "t">>
K_choices == <<"c", "h", "o", "i", "c", "e", "s">>
K_options == <<"o", "p", "t", "i", "o", "n", "s">>
K_correct_answers ==
    <<"c", "o", "r", "r", "e", "c", "t", "_", "a", "n", "s", "w", "e", "r", "s">>
K_correct_answer ==
    <<"c", "o", "r", "r", "e", "c", "t", "_", "a", "n", "s", "w", "e", "r">>
K_answer == <<"a", "n", "s", "w", "e", "r">>
K_answers == <<"a", "n", "s", "w", "e", "r", "s">>
K_domain == <<"d", "o", "m", "a", "i", "n">>
K_comment == <<"c", "o", "m", "m", "e", "n", "t">>
K_explanation == <<"e", "x", "p", "l", "a", "n", "a", "t", "i", "o", "n">>
K_id == <<"i", "d">>
K_uuid == <<"u", "u", "i", "d">>
K_questions == <<"q", "u", "e", "s", "t", "i", "o", "n", "s">>
K_data == <<"d", "a", "t", "a">>

General == <<"G", "e", "n", "e", "r", "a", "l">>

----------------------------------------------------------------------------
(* normalize_correct_answers and normalize_question. *)

\* What `for answer in raw_answers` iterates over, once a str or an int has been
\* wrapped in a list: a list's items, a dict's keys.
AnswerItems(raw_answers) ==
    CASE raw_answers.t \in {"str", "int", "bool"} -> <<raw_answers>>
      [] raw_answers.t = "list" -> raw_answers.v
      [] raw_answers.t = "dict" ->
            IF raw_answers.v = <<>> THEN <<>>
            ELSE [i \in 1..Len(raw_answers.v) |-> PyStr(raw_answers.v[i].k)]

\* lower_choices.index(lowered): the first position holding it, from 0
FirstIndex(lower_choices, lowered) ==
    (CHOOSE i \in DOMAIN lower_choices :
        /\ lower_choices[i] = lowered
        /\ \A j \in 1..(i - 1) : lower_choices[j] # lowered) - 1

\* The branch of an answer that is a str, already stripped.
ResolveStr(stripped, lower_choices) ==
    IF /\ Len(stripped) = 1
       /\ CharUpper(stripped[1]) \in UpperSet
       /\ LetterIndex[CharUpper(stripped[1])] < Len(lower_choices)
    THEN {PyInt(LetterIndex[CharUpper(stripped[1])])}
    ELSE IF StrLower(stripped) \in RangeOf(lower_choices)
    THEN {PyInt(FirstIndex(lower_choices, StrLower(stripped)))}
    ELSE {}

\* Answers resolved without checking an integer against the number of choices.
ResolveAnswer_AnyInteger(answer, lower_choices) ==
    IF IsInt(answer) THEN {answer}
    ELSE IF answer.t = "str"
    THEN Bind(Strip(answer.v), LAMBDA stripped : ResolveStr(stripped, lower_choices))
    ELSE {}

\* What one answer appends to `normalized`: nothing, or one index. An int or a
\* bool is appended as it is (True stays True), a str as the int it resolves to.
ResolveAnswer(answer, lower_choices) ==
    IF IsInt(answer)
    THEN IF 0 <= IntOf(answer) /\ IntOf(answer) < Len(lower_choices)
         THEN {answer}
         ELSE {}
    ELSE IF answer.t = "str"
    THEN Bind(Strip(answer.v), LAMBDA stripped : ResolveStr(stripped, lower_choices))
    ELSE {}

\* The integers a list of ints and bools holds, item by item.
IntsOf(xs) == IF xs = <<>> THEN <<>> ELSE [i \in DOMAIN xs |-> IntOf(xs[i])]

\* The loop of normalize_correct_answers and its return value, sorted(set(normalized)):
\* of the items appended that are equal (1 and True are) the set keeps the first.
ResolveAll(items, lower_choices) ==
    Bind([i \in DOMAIN items |-> ResolveAnswer(items[i], lower_choices)], LAMBDA appended :
        Bind(SortedInts({IntOf(x) : x \in UNION {appended[i] : i \in DOMAIN items}}),
             LAMBDA indices :
                IF indices = <<>> THEN <<>>
                ELSE [k \in DOMAIN indices |->
                        CHOOSE x \in appended[CHOOSE i \in DOMAIN items :
                                    /\ \E y \in appended[i] : IntOf(y) = indices[k]
                                    /\ \A j \in 1..(i - 1) :
                                          \A y \in appended[j] : IntOf(y) # indices[k]] :
                            TRUE]))

\* normalize_correct_answers(raw_answers, choices): [status |-> "ok", v |-> the list],
\* or the exception raised (a float is not iterable).
normalize_correct_answers(raw_answers, choices) ==
    IF raw_answers.t = "none" THEN [status |-> "ok", v |-> <<>>]
    ELSE IF raw_answers.t = "float" THEN [status |-> "TypeError"]
    ELSE Bind([i \in DOMAIN choices |-> StrLower(choices[i])], LAMBDA lower_choices :
            [status |-> "ok", v |-> ResolveAll(AnswerItems(raw_answers), lower_choices)])

\* str(uuid.uuid5(namespace, "cissp-question")), namespace being
\* uuid.uuid5(uuid.NAMESPACE_DNS, question_text): the 36 characters uuid5 gives for
\* each text the model derives an id from (the text as it is, not stripped).
DerivedIds ==
    <<
       [text |-> <<"Q">>,
        id |-> <<"3", "6", "d", "9", "9", "b", "f", "f", "-", "2", "0", "4", "e", "-", "5", "8", "e", "0">>
                 \o <<"-", "8", "c", "c", "f", "-", "a", "6", "0", "e", "3", "2", "2", "e", "4", "5", "1", "e">>],
       [text |-> <<" ", "Q", " ">>,
        id |-> <<"6", "1", "4", "2", "9", "6", "d", "6", "-", "f", "8", "3", "9", "-", "5", "f", "8", "f">>
                 \o <<"-", "8", "6", "8", "4", "-", "8", "6", "0", "8", "0", "0", "e", "5", "f", "0", "3", "d">>],
       [text |-> <<" ", " ">>,
        id |-> <<"d", "b", "1", "e", "f", "1", "9", "1", "-", "1", "9", "d", "b", "-", "5", "7", "7", "6">>
                 \o <<"-", "8", "b", "1", "2", "-", "6", "f", "6", "8", "c", "c", "8", "d", "5", "4", "b", "5">>],
       [text |-> <<"Q", "t">>,
        id |-> <<"3", "7", "f", "5", "b", "1", "f", "6", "-", "9", "a", "6", "1", "-", "5", "9", "0", "0">>
                 \o <<"-", "8", "4", "9", "6", "-", "c", "5", "9", "5", "c", "d", "b", "8", "6", "9", "6", "e">>],
       [text |-> <<"Q", "u">>,
        id |-> <<"6", "f", "c", "e", "6", "b", "a", "7", "-", "3", "b", "c", "6", "-", "5", "5", "a", "7">>
                 \o <<"-", "b", "e", "4", "a", "-", "7", "c", "e", "4", "2", "c", "4", "6", "4", "8", "f", "7">>]
    >>

\* question_id of a record that has neither id nor uuid
DerivedId(question_text) ==
    (CHOOSE derived \in RangeOf(DerivedIds) : derived.text = question_text).id

\* domain_value and domain
DomainOf(raw_question) ==
    Bind(GetDefault(raw_question, K_domain, PyStr(General)), LAMBDA domain_value :
        IF domain_value.t = "none" THEN General
        ELSE Bind(Strip(StrOf(domain_value)), LAMBDA domain :
                IF domain = <<>> THEN General ELSE domain))

\* comment_value and comment
CommentOf(raw_question) ==
    Bind(FirstTruthy(<<Get(raw_question, K_comment), Get(raw_question, K_explanation),
                       PyStr(<<>>)>>),
         LAMBDA comment_value : Strip(StrOf(comment_value)))

\* question_id and the dict returned, from line 98 on. uuid5 raises TypeError on a
\* name that is not a str, strip() is an AttributeError on such a text.
Canonical(raw_question, question_text, choices, correct_answers, question_id) ==
    IF ~Truthy(question_id) /\ question_text.t # "str" THEN [status |-> "TypeError"]
    ELSE IF question_text.t # "str" THEN [status |-> "AttributeError"]
    ELSE [status |-> "ok",
          q |-> [id |-> IF Truthy(question_id) THEN StrOf(question_id)
                        ELSE DerivedId(question_text.v),
                 question |-> Strip(question_text.v),
                 choices |-> choices,
                 correct_answers |-> correct_answers,
                 domain |-> DomainOf(raw_question),
                 comment |-> CommentOf(raw_question)]]

\* normalize_question from raw_correct on, choices being computed.
WithChoices(raw_question, question_text, choices) ==
    Bind(normalize_correct_answers(
            FirstTruthy(<<Get(raw_question, K_correct_answers),
                          Get(raw_question, K_correct_answer),
                          Get(raw_question, K_answer),
                          Get(raw_question, K_answers)>>), choices),
         LAMBDA correct_answers :
            IF correct_answers.status # "ok" THEN [status |-> correct_answers.status]
            ELSE IF correct_answers.v = <<>> THEN [status |-> "ValueError"]
            ELSE Bind(PyOr(Get(raw_question, K_id), Get(raw_question, K_uuid)),
                      LAMBDA question_id :
                         Canonical(raw_question, question_text, choices,
                                   correct_answers.v, question_id)))

\* raw_choices once a dict has been replaced by its values in key order
ChoiceList(raw_choices) ==
    IF raw_choices.t = "dict" THEN PyList(DictValuesByKey(raw_choices)) ELSE raw_choices

\* normalize_question from raw_choices on, question_text being computed.
WithText(raw_question, question_text) ==
    IF ~Truthy(question_text) THEN [status |-> "ValueError"]
    ELSE Bind(ChoiceList(PyOr(Get(raw_question, K_choices), Get(raw_question, K_options))),
              LAMBDA raw_choices :
                 IF raw_choices.t # "list" THEN [status |-> "ValueError"]
                 ELSE IF Len(raw_choices.v) < 2 THEN [status |-> "ValueError"]
                 ELSE Bind([i \in DOMAIN raw_choices.v |-> StrOf(raw_choices.v[i])],
                           LAMBDA choices : WithChoices(raw_question, question_text, choices)))

\* normalize_question(raw_question): [status |-> "ok", q |-> the question], or the
\* exception raised: "ValueError" (which import_questions catches), "AttributeError"
\* (a record without get(), a text without strip()) or "TypeError" (which it does not).
normalize_question(raw_question) ==
    IF raw_question.t # "dict" THEN [status |-> "AttributeError"]
    ELSE Bind(FirstTruthy(<<Get(raw_question, K_question), Get(raw_question, K_text),
                            Get(raw_question, K_prompt)>>),
              LAMBDA question_text : WithText(raw_question, question_text))

----------------------------------------------------------------------------
(* The two stores. *)

\* A key that session.get() or a file does not hold.
Absent == [absent |-> TRUE]

Max(a, b) == IF a >= b THEN a ELSE b
Min(a, b) == IF a <= b THEN a ELSE b

\* d[key] = value on an insertion-ordered dict given as the sequence of its
\* [key, value] items: a new key goes last, a known key keeps its place.
SetItem(items, key, value) ==
    Bind(items, LAMBDA d :
        IF \E i \in DOMAIN d : d[i].key = key
        THEN [i \in DOMAIN d |-> IF d[i].key = key THEN [key |-> key, value |-> value]
                                 ELSE d[i]]
        ELSE Append(d, [key |-> key, value |-> value]))

\* key in d
HasKey(items, key) == \E i \in DOMAIN items : items[i].key = key

\* d[key]
ItemOf(items, key) == items[CHOOSE i \in DOMAIN items : items[i].key = key].value

\* list(d.values())
Values(items) == IF items = <<>> THEN <<>> ELSE [i \in 1..Len(items) |-> items[i].value]

\* {q["id"]: q for q in loaded}, from item i on
RECURSIVE ExistingFrom(_, _, _)
ExistingFrom(loaded, i, existing_questions) ==
    IF i > Len(loaded) THEN existing_questions
    ELSE ExistingFrom(loaded, i + 1, SetItem(existing_questions, loaded[i].id, loaded[i]))

\* existing_questions, as import_questions builds it from the file
ExistingQuestions(loaded) == ExistingFrom(loaded, 1, <<>>)

\* `items` of import_questions: [ok |-> TRUE, v |-> the list], or [ok |-> FALSE]
\* where it raises ValueError("Unsupported format...").
ItemsOrError(items) ==
    IF items.t = "dict" THEN [ok |-> TRUE, v |-> DictValues(items)]
    ELSE IF items.t = "list" THEN [ok |-> TRUE, v |-> items.v]
    ELSE [ok |-> FALSE]

ImportItems(raw_data) ==
    IF raw_data.t = "dict"
    THEN Bind(FirstTruthy(<<Get(raw_data, K_questions), Get(raw_data, K_data), PyList(<<>>)>>),
              LAMBDA items : ItemsOrError(items))
    ELSE IF raw_data.t = "list" THEN [ok |-> TRUE, v |-> raw_data.v]
    ELSE [ok |-> FALSE]

\* What a ValueError raised by normalize_question does to the loop of
\* import_questions: `except ValueError: continue`.
SkipsRecord(status) == status = "ValueError"

\* An upsert that counts every question it stores as imported.
Upsert_CountsImported(acc, question) ==
    [acc EXCEPT !.existing = SetItem(acc.existing, question.id, question),
                !.imported = @ + 1]

\* An upsert that counts a question whose id is known as updated but keeps the value
\* stored for it.
Upsert_KeepsStored(acc, question) ==
    IF HasKey(acc.existing, question.id)
    THEN [acc EXCEPT !.updated = @ + 1]
    ELSE [acc EXCEPT !.existing = SetItem(acc.existing, question.id, question),
                     !.imported = @ + 1]


\* The body of the loop for a question that normalize_question returned.
Upsert(acc, question) ==
    IF HasKey(acc.existing, question.id)
    THEN [acc EXCEPT !.existing = SetItem(acc.existing, question.id, question),
                     !.updated = @ + 1]
    ELSE [acc EXCEPT !.existing = SetItem(acc.existing, question.id, question),
                     !.imported = @ + 1]

\* One turn of the loop: acc afterwards, its status naming an exception that is not
\* caught.
ImportOne(acc, normalized) ==
    IF normalized.status = "ok" THEN Upsert(acc, normalized.q)
    ELSE IF SkipsRecord(normalized.status) THEN acc
    ELSE [acc EXCEPT !.status = normalized.status]

\* The loop of import_questions from item i on. acc = [status, existing, imported,
\* updated]; an exception that is not caught ends the loop.
RECURSIVE ImportLoop(_, _, _)
ImportLoop(items, i, acc) ==
    IF i > Len(items) \/ acc.status # "ok" THEN acc
    ELSE Bind(normalize_question(items[i]), LAMBDA normalized :
            Bind(ImportOne(acc, normalized), LAMBDA next : ImportLoop(items, i + 1, next)))

\* The end of import_questions: save_json and the counts, or the exception.
ImportResult(loaded, done) ==
    IF done.status # "ok"
    THEN [status |-> done.status, stored |-> loaded, imported |-> 0, updated |-> 0]
    ELSE [status |-> "ok", stored |-> Values(done.existing),
          imported |-> done.imported, updated |-> done.updated]

\* import_questions(raw_data) on the stored list `loaded`:
\* [status, stored, imported, updated], stored being the file afterwards. status is
\* "ok", or the exception that left the call ("ValueError" for the format error).
import_questions(loaded, raw_data) ==
    Bind(ImportItems(raw_data), LAMBDA items :
        IF ~items.ok
        THEN [status |-> "ValueError", stored |-> loaded, imported |-> 0, updated |-> 0]
        ELSE Bind([status |-> "ok", existing |-> ExistingQuestions(loaded),
                   imported |-> 0, updated |-> 0],
                  LAMBDA start :
                     Bind(ImportLoop(items.v, 1, start),
                          LAMBDA done : ImportResult(loaded, done))))

\* {item["question_id"]: item for item in wrong_answers}, from item i on
RECURSIVE WrongFrom(_, _, _)
WrongFrom(wrong_answers, i, wrong_lookup) ==
    IF i > Len(wrong_answers) THEN wrong_lookup
    ELSE WrongFrom(wrong_answers, i + 1,
                   SetItem(wrong_lookup, wrong_answers[i].question_id, wrong_answers[i]))

\* wrong_lookup, as update_wrong_answers and review build it from the file
WrongLookup(wrong_answers) == WrongFrom(wrong_answers, 1, <<>>)

\* Whether the file holds a record for the question.
HasRecord(wrong_answers, question_id) ==
    \E i \in DOMAIN wrong_answers : wrong_answers[i].question_id = question_id

\* wrong_lookup[question_id]: the record the file holds for the question, the last
\* one where the file holds several (a later item replaces an earlier one of the
\* same key in the dict).
RecordOf(wrong_answers, question_id) ==
    wrong_answers[CHOOSE i \in DOMAIN wrong_answers :
                      /\ wrong_answers[i].question_id = question_id
                      /\ \A j \in (i + 1)..Len(wrong_answers) :
                            wrong_answers[j].question_id # question_id]

\* A removal that empties the file.
WithoutRecord_Clears(wrong_answers, question_id) == <<>>


\* [item for item in wrong_answers if item["question_id"] != question_id]
WithoutRecord(wrong_answers, question_id) ==
    SelectSeq(wrong_answers, LAMBDA item : item.question_id # question_id)

\* A repeated mistake that counts but keeps the answer of the first one.
RepeatedMistake_KeepsAnswer(record, selected_indices, now) ==
    [record EXCEPT !.wrong_count = @ + 1, !.last_attempt = now]

\* The record an incorrect answer leaves for a question that has one already.
RepeatedMistake(record, selected_indices, now) ==
    [record EXCEPT !.wrong_count = @ + 1,
                   !.last_attempt = now,
                   !.last_answer = selected_indices]

\* A first mistake recorded with no mistake counted yet.
FirstMistake_CountsNothing(question_id, selected_indices, now) ==
    [question_id |-> question_id, wrong_count |-> 0,
     last_attempt |-> now, last_answer |-> selected_indices]


\* The record an incorrect answer creates.
FirstMistake(question_id, selected_indices, now) ==
    [question_id |-> question_id, wrong_count |-> 1,
     last_attempt |-> now, last_answer |-> selected_indices]

\* A correct answer that leaves the record in the file.
AfterCorrect_KeepsRecord(wrong_answers, question_id) == wrong_answers

\* What a correct answer writes to the file when the question has a record.
AfterCorrect(wrong_answers, question_id) == WithoutRecord(wrong_answers, question_id)

\* What an incorrect answer writes to the file.
AfterMistake(wrong_lookup, question_id, selected_indices, now) ==
    IF HasKey(wrong_lookup, question_id)
    THEN Values(SetItem(wrong_lookup, question_id,
                        RepeatedMistake(ItemOf(wrong_lookup, question_id),
                                        selected_indices, now)))
    ELSE Values(SetItem(wrong_lookup, question_id,
                        FirstMistake(question_id, selected_indices, now)))

\* update_wrong_answers(question_id, selected_indices, is_correct) on the stored
\* list `wrong_answers`, utcnow() reading `now`: the file afterwards.
update_wrong_answers(wrong_answers, question_id, selected_indices, is_correct, now) ==
    Bind(WrongLookup(wrong_answers), LAMBDA wrong_lookup :
        IF is_correct
        THEN IF HasKey(wrong_lookup, question_id)
             THEN AfterCorrect(wrong_answers, question_id)
             ELSE wrong_answers
        ELSE AfterMistake(wrong_lookup, question_id, selected_indices, now))

\* Whether update_wrong_answers calls save_wrong_answers.
UpdateWrites(wrong_answers, question_id, is_correct) ==
    ~is_correct \/ HasKey(WrongLookup(wrong_answers), question_id)


----------------------------------------------------------------------------
(* The request handlers. A form field is PyNone when the form does not hold it and
   a PyStr otherwise. *)

\* The value of int(...) in the try block, 0 on ValueError
ParsedOrZero(parsed) == IF parsed.ok THEN parsed.v ELSE 0

\* int(request.form.get("total_questions", 0)), 0 on ValueError
RequestedTotal(total_field) ==
    IF total_field.t = "none" THEN 0
    ELSE Bind(ParseInt(total_field.v), LAMBDA parsed : ParsedOrZero(parsed))

\* A domain filter that takes upper and lower case for the same.
Filtered_IgnoresCase(stored, selected_domain) ==
    IF ~Truthy(selected_domain) THEN stored
    ELSE SelectSeq(stored, LAMBDA q : StrLower(q.domain) = StrLower(selected_domain.v))


\* [q for q in questions if not selected_domain or q["domain"] == selected_domain]
Filtered(stored, selected_domain) ==
    IF ~Truthy(selected_domain) THEN stored
    ELSE SelectSeq(stored, LAMBDA q : q.domain = selected_domain.v)

\* The count without its lower bound of one.
EffectiveTotal_NoFloor(total_questions, n) ==
    Min(IF total_questions # 0 THEN total_questions ELSE n, n)

\* max(1, min(total_questions or len(pool), len(pool))), n being len(pool)
EffectiveTotal(total_questions, n) ==
    Max(1, Min(IF total_questions # 0 THEN total_questions ELSE n, n))

\* The outcomes of random.sample(pool, k): k items at pairwise different positions,
\* in any order.
Samples(pool, k) ==
    {[i \in 1..k |-> pool[f[i]]] :
        f \in {g \in [1..k -> DOMAIN pool] : \A i, j \in 1..k : i # j => g[i] # g[j]}}

\* A review pool that ignores the wrong answers.
ReviewQuestions_All(stored, wrong_lookup) == stored

\* [q for q in questions if q.id in wrong_lookup]
ReviewQuestions(stored, wrong_lookup) ==
    SelectSeq(stored, LAMBDA q : HasKey(wrong_lookup, q.id))

\* sorted({int(choice) for choice in selected_indices}), the choices being parsed
SelectedOf(parsed) ==
    IF \A i \in DOMAIN parsed : parsed[i].ok
    THEN [ok |-> TRUE, v |-> SortedInts({parsed[i].v : i \in DOMAIN parsed})]
    ELSE [ok |-> FALSE]

\* sorted({int(choice) for choice in selected_indices}) if selected_indices else []:
\* [ok |-> TRUE, v |-> the list], or [ok |-> FALSE] where int() raises ValueError.
Selected(selected_indices) ==
    IF selected_indices = <<>> THEN [ok |-> TRUE, v |-> <<>>]
    ELSE Bind([i \in DOMAIN selected_indices |-> ParseInt(selected_indices[i])],
              LAMBDA parsed : SelectedOf(parsed))

\* sorted(xs) for a list of ints and bools, repeated items kept, equal items in the
\* order they had
SortedList(xs) ==
    IF xs = <<>> THEN <<>>
    ELSE [i \in 1..Len(xs) |->
            xs[CHOOSE j \in DOMAIN xs :
                  Cardinality({k \in DOMAIN xs :
                                  \/ IntOf(xs[k]) < IntOf(xs[j])
                                  \/ IntOf(xs[k]) = IntOf(xs[j]) /\ k < j}) = i - 1]]

\* Scoring that gives credit for any selection inside the correct answers.
IsCorrect_Subset(selected, correct_answers) ==
    RangeOf(selected) \subseteq RangeOf(IntsOf(correct_answers))

\* is_correct = selected == correct_answers: two lists are equal when their items
\* are, and True equals 1
IsCorrect(selected, correct_answers) == selected = IntsOf(correct_answers)

\* Scoring the questions as the question file holds them now, by id.
TestQuestions_Stored(test) ==
    [i \in DOMAIN test.questions |->
        questions[CHOOSE k \in DOMAIN questions : questions[k].id = test.questions[i].id]]

\* questions = test["questions"]: what submit_test scores
TestQuestions(test) == test.questions

\* The bits a float keeps of a number (a double's significand).
MantissaBits == 53

\* (c * 2^i) % t, for c < t
RECURSIVE Remainder(_, _, _)
Remainder(c, t, i) == IF i = 0 THEN c ELSE (2 * Remainder(c, t, i - 1)) % t

\* Bit i after the binary point of c / t, for c < t
QuotientBit(c, t, i) == IF 2 * Remainder(c, t, i - 1) >= t THEN 1 ELSE 0

\* The number a list of bits writes, the most significant first.
RECURSIVE BitsValue(_)
BitsValue(bits) ==
    IF bits = <<>> THEN 0
    ELSE 2 * BitsValue(SubSeq(bits, 1, Len(bits) - 1)) + bits[Len(bits)]

\* bits + 1: one bit longer where every bit is 1
Increment(bits) ==
    IF \A i \in DOMAIN bits : bits[i] = 1 THEN <<1>> \o [i \in DOMAIN bits |-> 0]
    ELSE Bind(CHOOSE j \in DOMAIN bits :
                  bits[j] = 0 /\ \A i \in (j + 1)..Len(bits) : bits[i] = 1,
              LAMBDA j : SubSeq(bits, 1, j - 1) \o <<1>> \o [i \in 1..(Len(bits) - j) |-> 0])

\* The first n of the bits, rounded to nearest, a tie to even, as float arithmetic
\* and round() do; `more` says that the number goes on below the last of the bits.
NearestEven(bits, n, more) ==
    IF /\ n < Len(bits) /\ bits[n + 1] = 1
       /\ \/ more
          \/ \E i \in (n + 2)..Len(bits) : bits[i] = 1
          \/ bits[n] = 1
    THEN Increment(SubSeq(bits, 1, n))
    ELSE SubSeq(bits, 1, n)

\* The carry into bit i, counted from the least significant (0), of bits * k
RECURSIVE Carry(_, _, _)
Carry(bits, k, i) ==
    IF i = 0 THEN 0
    ELSE ((IF i <= Len(bits) THEN bits[Len(bits) - i + 1] ELSE 0) * k
          + Carry(bits, k, i - 1)) \div 2

\* bits * k for 0 < k < 128 and a first bit of 1, without leading zeros
Times(bits, k) ==
    Bind(<<>> \o [j \in 1..(Len(bits) + 7) |->
                    ((IF j > 7 THEN bits[j - 7] ELSE 0) * k
                     + Carry(bits, k, Len(bits) + 7 - j)) % 2],
         LAMBDA product :
             SubSeq(product,
                    CHOOSE j \in DOMAIN product :
                        product[j] = 1 /\ \A i \in 1..(j - 1) : product[i] = 0,
                    Len(product)))

\* The float of mantissa m, the last e of its bits after the binary point; a
\* mantissa that rounding made one bit longer loses its last bit.
Float(m, e) ==
    IF Len(m) > MantissaBits THEN [m |-> SubSeq(m, 1, MantissaBits), e |-> e - 1]
    ELSE [m |-> m, e |-> e]

\* c / t as a float, for 0 < c < t: the quotient's bits from its first 1 on
FloatQuotient(c, t) ==
    Bind(CHOOSE z \in 0..30 :
             QuotientBit(c, t, z + 1) = 1 /\ \A i \in 1..z : QuotientBit(c, t, i) = 0,
         LAMBDA z :
             Float(NearestEven(<<>> \o [j \in 1..(MantissaBits + 1) |-> QuotientBit(c, t, z + j)],
                               MantissaBits,
                               Remainder(c, t, z + MantissaBits + 1) # 0),
                   z + MantissaBits))

\* x * 100 as a float
FloatTimes100(x) ==
    Bind(Times(x.m, 100), LAMBDA product :
        Float(NearestEven(product, MantissaBits, FALSE),
              x.e - (Len(product) - MantissaBits)))

\* round(y, 2) in hundredths: the integer nearest to y * 100, a tie to even
Hundredths(y) ==
    Bind(Times(y.m, 100), LAMBDA product :
        Bind([j \in 1..(y.e + 1 - Len(product)) |-> 0] \o product, LAMBDA bits :
            BitsValue(NearestEven(bits, Len(bits) - y.e, FALSE))))

\* round((correct_count / total_questions) * 100, 2) if total_questions else 0, in
\* hundredths. The quotient and the product are floats, so where the exact value
\* lies halfway between two hundredths the float decides (1 of 32 gives 3.12, 23 of
\* 160 gives 14.37); elsewhere the float is far closer to the exact value than that
\* value is to a tie, and the nearest hundredth is the result.
Score(correct_count, total_questions) ==
    IF total_questions = 0 THEN 0
    ELSE IF 2 * ((10000 * correct_count) % total_questions) < total_questions
    THEN (10000 * correct_count) \div total_questions
    ELSE IF 2 * ((10000 * correct_count) % total_questions) > total_questions
    THEN (10000 * correct_count) \div total_questions + 1
    ELSE Bind(FloatQuotient(correct_count, total_questions), LAMBDA x :
             Bind(FloatTimes100(x), LAMBDA y : Hundredths(y)))

\* A loop body that calls update_wrong_answers for the incorrect answers only.
Mark_UpdatesMistakesOnly(acc, question, selected, correct_answers, is_correct, now) ==
    [status |-> "ok",
     wrong |-> IF is_correct THEN acc.wrong
               ELSE update_wrong_answers(acc.wrong, question.id, selected, is_correct, now),
     results |-> Append(acc.results,
                    [question |-> question, selected |-> selected,
                     is_correct |-> is_correct, correct_answers |-> correct_answers]),
     correct_count |-> acc.correct_count + (IF is_correct THEN 1 ELSE 0)]


\* The body of the loop of submit_test once is_correct is known.
Mark(acc, question, selected, correct_answers, is_correct, now) ==
    [status |-> "ok",
     wrong |-> update_wrong_answers(acc.wrong, question.id, selected, is_correct, now),
     results |-> Append(acc.results,
                    [question |-> question, selected |-> selected,
                     is_correct |-> is_correct, correct_answers |-> correct_answers]),
     correct_count |-> acc.correct_count + (IF is_correct THEN 1 ELSE 0)]

\* The body of the loop of submit_test for one question, `selected` being computed.
ScoreOne(acc, question, selected, now) ==
    IF ~selected.ok THEN [acc EXCEPT !.status = "ValueError"]
    ELSE Bind(SortedList(question.correct_answers), LAMBDA correct_answers :
            Bind(IsCorrect(selected.v, correct_answers), LAMBDA is_correct :
                Mark(acc, question, selected.v, correct_answers, is_correct, now)))

\* The loop of submit_test from question i on. form maps a question id to the list
\* request.form.getlist gives for it. acc = [status, wrong, results, correct_count];
\* the ValueError of int() leaves the loop with the updates made so far written.
RECURSIVE SubmitLoop(_, _, _, _, _)
SubmitLoop(qs, form, i, now, acc) ==
    IF i > Len(qs) \/ acc.status # "ok" THEN acc
    ELSE Bind(Selected(form[qs[i].id]), LAMBDA selected :
            Bind(ScoreOne(acc, qs[i], selected, now), LAMBDA next :
                SubmitLoop(qs, form, i + 1, now, next)))

\* A submit that leaves the test in the session.
PopCurrentTest_KeepsTest(test) == test

\* session.pop("current_test", None) at the end of submit_test
PopCurrentTest(test) == Absent

\* session["last_results"] as submit_test sets it
LastResults(test, done) ==
    [results |-> done.results,
     score |-> Score(done.correct_count, Len(TestQuestions(test))),
     correct_count |-> done.correct_count,
     total_questions |-> Len(TestQuestions(test)),
     mode |-> test.mode]

\* The redirect of import_view once import_questions has returned or raised.
ImportResponse(stats) ==
    IF stats.status = "ok"
    THEN [status |-> "imported", imported |-> stats.imported, updated |-> stats.updated]
    ELSE IF stats.status = "ValueError" THEN [status |-> "format_error"]
    ELSE [status |-> "server_error"]

\* POST /import with an uploaded file that parses to `payload`
import_view(payload) ==
    \E stats \in {import_questions(questions, payload)} :
        /\ request' = [op |-> "import_view", payload |-> payload]
        /\ questions' = stats.stored
        /\ response' = ImportResponse(stats)
        /\ UNCHANGED <<wrong, current_test, last_results, clock>>

\* The session a handler creates from its pool.
CreateTest(pool, total_field, mode) ==
    \E selected_questions \in
            Samples(pool, EffectiveTotal(RequestedTotal(total_field), Len(pool))) :
        current_test' = [questions |-> selected_questions,
                         timestamp |-> clock, mode |-> mode]

\* POST /test/new (a GET renders the form, or redirects when no question is stored)
new_test(total_field, domain_field) ==
    /\ request' = [op |-> "new_test", total |-> total_field, domain |-> domain_field]
    /\ IF questions = <<>>
       THEN /\ response' = [status |-> "no_questions"]
            /\ UNCHANGED current_test
       ELSE \E filtered \in {Filtered(questions, domain_field)} :
               IF filtered = <<>>
               THEN /\ response' = [status |-> "nothing_available"]
                    /\ UNCHANGED current_test
               ELSE /\ CreateTest(filtered, total_field, "standard")
                    /\ response' = [status |-> "created"]
    /\ UNCHANGED <<questions, wrong, last_results, clock>>

\* POST /review (a GET renders the list of the questions to review)
review(total_field) ==
    /\ request' = [op |-> "review", total |-> total_field]
    /\ \E review_questions \in {ReviewQuestions(questions, WrongLookup(wrong))} :
          IF review_questions = <<>>
          THEN /\ response' = [status |-> "nothing_available"]
               /\ UNCHANGED current_test
          ELSE /\ CreateTest(review_questions, total_field, "review")
               /\ response' = [status |-> "created"]
    /\ UNCHANGED <<questions, wrong, last_results, clock>>

\* The loop of submit_test on the whole test, from the stored wrong answers.
Scored(test, form, now, wrong_answers) ==
    Bind([status |-> "ok", wrong |-> wrong_answers, results |-> <<>>, correct_count |-> 0],
         LAMBDA start : SubmitLoop(TestQuestions(test), form, 1, now, start))

\* POST /test/submit; form maps each question id of the form to its list of values
submit_test(form) ==
    /\ request' = [op |-> "submit_test", form |-> form]
    /\ IF current_test = Absent
       THEN /\ response' = [status |-> "no_test"]
            /\ UNCHANGED <<questions, wrong, current_test, last_results, clock>>
       ELSE \E done \in {Scored(current_test, form, clock, wrong)} :
               /\ \A i \in DOMAIN done.wrong : done.wrong[i].wrong_count <= MaxWrongCount
               /\ wrong' = done.wrong
               /\ IF done.status = "ok"
                  THEN /\ last_results' = LastResults(current_test, done)
                       /\ current_test' = PopCurrentTest(current_test)
                       /\ response' = [status |-> "scored"]
                  ELSE /\ response' = [status |-> "server_error"]
                       /\ UNCHANGED <<current_test, last_results>>
               /\ UNCHANGED <<questions, clock>>

\* A results page that takes the results out of the session when it shows them.
show_results_PopsResults ==
    /\ request' = [op |-> "show_results"]
    /\ response' = [status |-> IF last_results = Absent THEN "no_results" ELSE "page"]
    /\ last_results' = Absent
    /\ UNCHANGED <<questions, wrong, current_test, clock>>


\* GET /results
show_results ==
    /\ request' = [op |-> "show_results"]
    /\ response' = [status |-> IF last_results = Absent THEN "no_results" ELSE "page"]
    /\ UNCHANGED <<questions, wrong, current_test, last_results, clock>>

\* One call of update_wrong_answers, on its own
update_call(question_id, selected_indices, is_correct) ==
    /\ IF is_correct \/ ~HasRecord(wrong, question_id) THEN TRUE
       ELSE RecordOf(wrong, question_id).wrong_count < MaxWrongCount
    /\ wrong' = update_wrong_answers(wrong, question_id, selected_indices, is_correct, clock)
    /\ request' = [op |-> "update_wrong_answers", question_id |-> question_id,
                   selected_indices |-> selected_indices, is_correct |-> is_correct]
    /\ response' = [status |-> "returned",
                    wrote |-> UpdateWrites(wrong, question_id, is_correct)]
    /\ UNCHANGED <<questions, current_test, last_results, clock>>

\* Time passes between two requests.
Tick ==
    /\ clock < MaxClock
    /\ clock' = clock + 1
    /\ UNCHANGED <<questions, wrong, current_test, last_results, request, response>>


\* The dict normalize_question returns, as the raw question a second call is given.
AsRaw(question) ==
    PyDict(<<[k |-> K_id, v |-> PyStr(question.id)],
             [k |-> K_question, v |-> PyStr(question.question)],
             [k |-> K_choices,
              v |-> PyList([i \in DOMAIN question.choices |->
                              PyStr(question.choices[i])])],
             [k |-> K_correct_answers,
              v |-> PyList(question.correct_answers)],
             [k |-> K_domain, v |-> PyStr(question.domain)],
             [k |-> K_comment, v |-> PyStr(question.comment)]>>)

\* normalize_question(raw_question) and, when it returns, normalize_question of what
\* it returned.
Normalize(raw_question) ==
    /\ request' = [op |-> "normalize_question", raw_question |-> raw_question]
    /\ \E first \in {normalize_question(raw_question)} :
          response' = IF first.status = "ok"
                      THEN [status |-> "ok", q |-> first.q,
                            again |-> normalize_question(AsRaw(first.q))]
                      ELSE [status |-> first.status]
    /\ UNCHANGED <<questions, wrong, current_test, last_results, clock>>

----------------------------------------------------------------------------
(* Calls that overlap. update_wrong_answers and import_questions read their file
   when they begin and write it when they end; nothing holds the file in between, so
   a second call can read and write it between the steps of a first one. save_json
   is two steps itself: open(..., "w") empties the file, and the text json.dump
   produced reaches it, from its first character on, when the with block closes the
   handle (the files of the model fit the handle's buffer). *)

\* The calls that may overlap.
Procs == {1, 2}

\* A call that has not begun. A call keeps, as history, the calls that had returned
\* when it loaded the file (returnedAtLoad) and, from when it opened the file to save,
\* those that had loaded it (loadedAtOpen) and those that had returned (returnedAtOpen).
Idle == [pc |-> "idle", call |-> [op |-> "none"], loaded |-> <<>>, data |-> <<>>,
         now |-> 0, returnedAtLoad |-> {}, loadedAtOpen |-> {}, returnedAtOpen |-> {}]

\* The calls that have loaded their file, and those that have returned.
Begun == {p \in Procs : calls[p].pc # "idle"}
Returned == {p \in Procs : calls[p].pc = "done"}

\* No pair of calls has overlapped before.
NoPair == [op |-> "none", lost |-> FALSE]

\* The file of a call: WRONG_FILE or QUESTIONS_FILE
PathOf(call) == IF call.op = "update_wrong_answers" THEN "wrong" ELSE "questions"

RECURSIVE Sum(_)
Sum(sizes) == IF sizes = <<>> THEN 0 ELSE Head(sizes) + Sum(Tail(sizes))

\* The characters json.dump(..., indent=2) writes for a list or an object `depth`
\* levels deep whose items take `sizes` characters: the brackets, and for each item
\* a line break, its indentation and, after all but the last, a comma.
Indented(sizes, depth) ==
    IF sizes = <<>> THEN 2
    ELSE Sum(sizes) + Len(sizes) * (2 * depth + 4) + 2 * depth + 2

\* The characters of an object's entry: the key in quotes, ": " and the value
Entry(key, size) == Len(key) + 4 + size

\* The characters json.dump(data, f, indent=2, ensure_ascii=False) writes for a
\* list of stored questions or of wrong-answer records. isoformat() leaves out the
\* microseconds of a time on a whole second (an even reading of the clock), and a
\* bool is written true or false.
DumpSize(data) ==
    Indented(<<>> \o [i \in DOMAIN data |->
        IF "question_id" \in DOMAIN data[i]
        THEN Indented(<<Entry("question_id", Len(data[i].question_id) + 2),
                        Entry("wrong_count", Len(IntStr(data[i].wrong_count))),
                        Entry("last_attempt",
                              (IF data[i].last_attempt % 2 = 0
                               THEN Len("2026-01-01T00:00:00")
                               ELSE Len("2026-01-01T00:00:00.500000")) + 2),
                        Entry("last_answer",
                              Indented(<<>> \o [j \in DOMAIN data[i].last_answer |->
                                           Len(IntStr(data[i].last_answer[j]))], 2))>>, 1)
        ELSE Indented(<<Entry("id", Len(data[i].id) + 2),
                        Entry("question", Len(data[i].question) + 2),
                        Entry("choices",
                              Indented(<<>> \o [j \in DOMAIN data[i].choices |->
                                           Len(data[i].choices[j]) + 2], 2)),
                        Entry("correct_answers",
                              Indented(<<>> \o [j \in DOMAIN data[i].correct_answers |->
                                           IF data[i].correct_answers[j].t = "bool"
                                           THEN (IF data[i].correct_answers[j].v
                                                 THEN Len("true") ELSE Len("false"))
                                           ELSE Len(IntStr(data[i].correct_answers[j].v))],
                                       2)),
                        Entry("domain", Len(data[i].domain) + 2),
                        Entry("comment", Len(data[i].comment) + 2)>>, 1)], 0)

\* A file that holds the JSON text of its list (or does not exist), and a file of
\* `size` characters that json.load refuses: load_json returns [] for it.
Json == [json |-> TRUE]
NoJson(size) == [json |-> FALSE, size |-> size]

\* The characters of a file: of the text of its list, or, where it holds no JSON, the
\* length it was left with (none once path.open("w") has emptied it).
FileSize(list, state) == IF state.json THEN DumpSize(list) ELSE state.size

\* The file after a handle wrote the text of `data` from the first character on:
\* that text where it covers what the file held, and otherwise that text followed
\* by the end of the longer one, which json.load refuses, so that load_json
\* returns [].
Written(list, state, data) ==
    IF DumpSize(data) >= FileSize(list, state)
    THEN [list |-> data, torn |-> Json]
    ELSE [list |-> <<>>, torn |-> NoJson(FileSize(list, state))]

\* The list a call rewrites even though the file has changed since it was loaded.
Loaded_AtSave(snapshot, file) == file

\* The list a call works on until it saves: the one it loaded when it began, whatever
\* the file holds by then.
Loaded(snapshot, file) == snapshot

\* wrong_answers = load_wrong_answers(), the first step of update_wrong_answers
LoadWrong(p, question_id, selected_indices, is_correct) ==
    /\ calls[p].pc = "idle"
    /\ calls' = [calls EXCEPT ![p] =
                    [calls[p] EXCEPT
                        !.pc = "loaded",
                        !.call = [op |-> "update_wrong_answers",
                                  question_id |-> question_id,
                                  selected_indices |-> selected_indices,
                                  is_correct |-> is_correct],
                        !.loaded = wrong, !.returnedAtLoad = Returned]]
    /\ UNCHANGED <<questions, wrong, torn, current_test, last_results, clock,
                   request, response>>

\* update_wrong_answers between its load and its save: the lookup and the change,
\* utcnow() read for a mistake; a correct answer to a question without a record
\* returns here.
ChangeWrong(p) ==
    /\ calls[p].pc = "loaded" /\ calls[p].call.op = "update_wrong_answers"
    /\ \E wrong_answers \in {Loaded(calls[p].loaded, wrong)} :
          calls' = [calls EXCEPT ![p] =
              IF UpdateWrites(wrong_answers, calls[p].call.question_id,
                              calls[p].call.is_correct)
              THEN [calls[p] EXCEPT
                       !.pc = "changed",
                       !.data = update_wrong_answers(wrong_answers,
                                    calls[p].call.question_id,
                                    calls[p].call.selected_indices,
                                    calls[p].call.is_correct, clock),
                       !.now = clock]
              ELSE [calls[p] EXCEPT !.pc = "done", !.now = clock]]
    /\ UNCHANGED <<questions, wrong, torn, current_test, last_results, clock,
                   request, response>>

\* load_json(QUESTIONS_FILE), the first step of import_questions
LoadQuestions(p, raw_data) ==
    /\ calls[p].pc = "idle"
    /\ calls' = [calls EXCEPT ![p] =
                    [calls[p] EXCEPT
                        !.pc = "loaded",
                        !.call = [op |-> "import_questions", raw_data |-> raw_data],
                        !.loaded = questions, !.returnedAtLoad = Returned]]
    /\ UNCHANGED <<questions, wrong, torn, current_test, last_results, clock,
                   request, response>>

\* import_questions between its load and its save: the loop, which an exception
\* leaves without a save.
ChangeQuestions(p) ==
    /\ calls[p].pc = "loaded" /\ calls[p].call.op = "import_questions"
    /\ \E stats \in {import_questions(Loaded(calls[p].loaded, questions),
                                      calls[p].call.raw_data)} :
          calls' = [calls EXCEPT ![p] =
              IF stats.status = "ok"
              THEN [calls[p] EXCEPT !.pc = "changed", !.data = stats.stored]
              ELSE [calls[p] EXCEPT !.pc = "done"]]
    /\ UNCHANGED <<questions, wrong, torn, current_test, last_results, clock,
                   request, response>>

\* path.open("w") in save_json: the file is empty from here on.
Open(p) ==
    /\ calls[p].pc = "changed"
    /\ calls' = [calls EXCEPT ![p] =
                    [calls[p] EXCEPT !.pc = "opened",
                                     !.loadedAtOpen = Begun \ {p},
                                     !.returnedAtOpen = Returned]]
    /\ IF PathOf(calls[p].call) = "wrong"
       THEN wrong' = <<>> /\ UNCHANGED questions
       ELSE questions' = <<>> /\ UNCHANGED wrong
    /\ torn' = [torn EXCEPT ![PathOf(calls[p].call)] = NoJson(0)]
    /\ UNCHANGED <<current_test, last_results, clock, request, response>>

\* json.dump and the end of the with block in save_json: the text reaches the file.
Write(p) ==
    /\ calls[p].pc = "opened"
    /\ calls' = [calls EXCEPT ![p].pc = "done"]
    /\ IF PathOf(calls[p].call) = "wrong"
       THEN \E file \in {Written(wrong, torn.wrong, calls[p].data)} :
               /\ wrong' = file.list
               /\ torn' = [torn EXCEPT !.wrong = file.torn]
               /\ UNCHANGED questions
       ELSE \E file \in {Written(questions, torn.questions, calls[p].data)} :
               /\ questions' = file.list
               /\ torn' = [torn EXCEPT !.questions = file.torn]
               /\ UNCHANGED wrong
    /\ UNCHANGED <<current_test, last_results, clock, request, response>>


----------------------------------------------------------------------------
(* The inputs of the model. *)

Item(key, value) == [k |-> key, v |-> value]

TwoChoices == PyList(<<PyStr(<<"x">>), PyStr(<<"y">>)>>)

\* The raw questions the application specification imports: question a in two
\* versions that differ in the correct answers, and question b.
QA1 == PyDict(<<Item(K_id, PyStr(<<"a">>)), Item(K_question, PyStr(<<"Q", "a">>)),
                Item(K_choices, TwoChoices),
                Item(K_answers, PyList(<<PyInt(0), PyInt(1)>>)),
                Item(K_domain, PyStr(<<"A">>))>>)
QA2 == PyDict(<<Item(K_id, PyStr(<<"a">>)), Item(K_question, PyStr(<<"Q", "a">>)),
                Item(K_choices, TwoChoices),
                Item(K_answers, PyList(<<PyInt(0)>>)),
                Item(K_domain, PyStr(<<"A">>))>>)
QB == PyDict(<<Item(K_id, PyStr(<<"b">>)), Item(K_question, PyStr(<<"Q", "b">>)),
               Item(K_choices, TwoChoices),
               Item(K_answer, PyStr(<<"B">>)),
               Item(K_domain, PyStr(<<"B">>))>>)

SessionRaw == {QA1, QA2, QB}

SessionPayloads == {PyList(<<r>>) : r \in SessionRaw}

\* A raw question without id: its text, its answers, and its comment.
Unidentified(text, answers, comment) ==
    PyDict(<<Item(K_text, PyStr(text)), Item(K_options, TwoChoices),
             Item(K_correct_answer, PyList(answers)),
             Item(K_comment, PyStr(comment))>>)

\* A question without id (one of its two answers is not an index of its choices), and
\* that question with one field changed: its comment, its answers (none of them an
\* index of its choices now: normalize_question refuses it), and its text.
QT1 == Unidentified(<<"Q", "t">>, <<PyInt(7), PyInt(1)>>, <<"c">>)
QT2 == Unidentified(<<"Q", "t">>, <<PyInt(7), PyInt(1)>>, <<"d">>)
QT0 == Unidentified(<<"Q", "t">>, <<PyInt(7)>>, <<"c">>)
QU1 == Unidentified(<<"Q", "u">>, <<PyInt(7), PyInt(1)>>, <<"c">>)

\* Question a (first version) with one field changed: its id.
QC1 == PyDict(<<Item(K_id, PyStr(<<"c">>)), Item(K_question, PyStr(<<"Q", "a">>)),
                Item(K_choices, TwoChoices),
                Item(K_answers, PyList(<<PyInt(0), PyInt(1)>>)),
                Item(K_domain, PyStr(<<"A">>))>>)

\* The raw questions the import specification imports: question a and the same under
\* another id, and the question without id in its four versions.
ImportRaw == <<QA1, QC1, QT1, QT2, QT0, QU1>>

\* The lists of at most n different records of a pool, in the order of the pool.
Batches(pool, n) ==
    UNION {{[i \in 1..k |-> pool[at[i]]] :
              at \in {f \in [1..k -> DOMAIN pool] : \A i, j \in 1..k : i < j => f[i] < f[j]}} :
           k \in 0..n}

ImportPayloads == {PyList(s) : s \in Batches(ImportRaw, MaxBatch)}

\* Records normalize_question does not accept: without text, with one choice, with an
\* answer that is none of the choices, and one that is not a mapping.
NoText == PyDict(<<Item(K_id, PyStr(<<"m">>)), Item(K_choices, TwoChoices),
                   Item(K_answers, PyList(<<PyInt(0)>>))>>)
OneChoice == PyDict(<<Item(K_id, PyStr(<<"n">>)), Item(K_question, PyStr(<<"Q", "n">>)),
                      Item(K_choices, PyList(<<PyStr(<<"x">>)>>)),
                      Item(K_answers, PyList(<<PyInt(0)>>))>>)
NoAnswer == PyDict(<<Item(K_id, PyStr(<<"o">>)), Item(K_question, PyStr(<<"Q", "o">>)),
                     Item(K_choices, TwoChoices),
                     Item(K_answers, PyList(<<PyStr(<<"z">>)>>))>>)
NotMapping == PyStr(<<"b", "a", "d">>)

\* The raw records of the batch specification.
BatchRaw == {QA1, QB, QT1, NoText, OneChoice, NoAnswer, NotMapping}

\* The batches of the batch specification: records may repeat.
BatchPayloads == {PyList(s) : s \in UNION {[1..k -> BatchRaw] : k \in 0..MaxBatch}}

\* The stores the batch specification starts from: an empty one, and the one an
\* import of QA2 leaves.
BatchStores == {<<>>, import_questions(<<>>, PyList(<<QA2>>)).stored}

\* The total_questions fields of the forms posted to /test/new and /review; "0_1"
\* is 1 to int().
TotalFields == {PyStr(<<"0">>), PyStr(<<"0", "_", "1">>), PyStr(<<"2">>), PyStr(<<"5">>),
                PyStr(<<"-", "1">>)}

\* The domain fields of the forms posted to /test/new.
DomainFields == {PyNone, PyStr(<<"A">>), PyStr(<<"a">>)}

\* The lists of values a form holds for one question: none, one choice, a choice
\* given twice (once written "0_1") with another, and a value int() refuses.
FormValues == { <<>>, << <<"0">> >>, << <<"1">>, <<"0">>, <<"0", "_", "1">> >>,
                << <<"x">> >> }

\* The forms submitted for a test: a list of values for each of its questions.
Forms(test) ==
    IF test = Absent THEN {<<>>}
    ELSE [{test.questions[i].id : i \in DOMAIN test.questions} -> FormValues]

\* The inputs of update_wrong_answers when it is called on its own.
UpdateIds == {<<"a">>, <<"b">>}
Selections == {<<>>, <<0>>, <<0, 1>>}

----------------------------------------------------------------------------
(* The specifications. *)

Init ==
    /\ questions = <<>>
    /\ wrong = <<>>
    /\ current_test = Absent
    /\ last_results = Absent
    /\ clock = 0
    /\ request = [op |-> "none"]
    /\ response = [status |-> "none"]
    /\ requests = 0
    /\ streak = [id \in UpdateIds |-> 0]
    /\ lastSelected = [id \in UpdateIds |-> <<>>]
    /\ reimport = "no"
    /\ calls = [p \in Procs |-> Idle]
    /\ base = [questions |-> questions, wrong |-> wrong]
    /\ earlier = NoPair
    /\ torn = [questions |-> Json, wrong |-> Json]

history == <<streak, lastSelected, reimport, calls, base, earlier, torn>>

\* One more request is served.
Served ==
    /\ requests < MaxRequests
    /\ requests' = requests + 1
    /\ UNCHANGED history

\* The application: one request at a time.
Next ==
    \/ Served /\ \E payload \in SessionPayloads : import_view(payload)
    \/ Served /\ \E total_field \in TotalFields, domain_field \in DomainFields :
                    new_test(total_field, domain_field)
    \/ Served /\ \E total_field \in TotalFields : review(total_field)
    \/ Served /\ \E form \in Forms(current_test) : submit_test(form)
    \/ Served /\ show_results

Spec == Init /\ [][Next]_vars

\* update_wrong_answers called one call at a time, from an empty store.
UpdateStep(question_id, selected_indices, is_correct) ==
    /\ update_call(question_id, selected_indices, is_correct)
    /\ streak' = [streak EXCEPT ![question_id] = IF is_correct THEN 0 ELSE @ + 1]
    /\ lastSelected' = IF is_correct THEN lastSelected
                       ELSE [lastSelected EXCEPT ![question_id] = selected_indices]
    /\ UNCHANGED <<requests, reimport, calls, base, earlier, torn>>

NextUpdate ==
    \/ \E question_id \in UpdateIds, selected_indices \in Selections, is_correct \in BOOLEAN :
          UpdateStep(question_id, selected_indices, is_correct)
    \/ Tick /\ UNCHANGED <<requests, history>>

SpecUpdate == Init /\ [][NextUpdate]_vars

\* The keys at which two raw records with the same keys differ.
ChangedKeys(old, new) ==
    {old.v[i].k : i \in {j \in DOMAIN old.v : old.v[j].v # new.v[j].v}}

\* new is old with the value of at most one field changed.
SameQuestion(old, new) ==
    /\ old.t = "dict" /\ new.t = "dict"
    /\ Len(old.v) = Len(new.v)
    /\ \A i \in DOMAIN old.v : old.v[i].k = new.v[i].k
    /\ Cardinality(ChangedKeys(old, new)) <= 1

\* The fields a raw record's id comes from, `or` looking no further than the first
\* true value: id alone when it is true, id and uuid when uuid gives the id, and
\* otherwise these and the keys of the text up to the one that gives it.
IdentityKeys(raw_question) ==
    IF Truthy(Get(raw_question, K_id)) THEN {K_id}
    ELSE IF Truthy(Get(raw_question, K_uuid)) THEN {K_id, K_uuid}
    ELSE IF Truthy(Get(raw_question, K_question)) THEN {K_id, K_uuid, K_question}
    ELSE IF Truthy(Get(raw_question, K_text)) THEN {K_id, K_uuid, K_question, K_text}
    ELSE {K_id, K_uuid, K_question, K_text, K_prompt}

\* The last import stored a batch of new questions (imported = N, updated = 0) and
\* `payload` is that batch with one field changed.
IsReimport(payload) ==
    /\ request.op = "import_view" /\ response.status = "imported"
    /\ request.payload.t = "list" /\ payload.t = "list"
    /\ Len(payload.v) = Len(request.payload.v)
    /\ response.imported = Len(payload.v) /\ response.updated = 0
    /\ \A i \in DOMAIN payload.v : SameQuestion(request.payload.v[i], payload.v[i])
    /\ \E i \in DOMAIN payload.v : request.payload.v[i] # payload.v[i]

\* How an import of `payload` relates to the import before it: "no" when it is not
\* that batch with one field changed, "identity" when a changed field is one the id
\* comes from, "field" otherwise.
Reimport(payload) ==
    IF ~IsReimport(payload) THEN "no"
    ELSE IF \A i \in DOMAIN payload.v :
               ChangedKeys(request.payload.v[i], payload.v[i])
                   \cap IdentityKeys(payload.v[i]) = {}
    THEN "field"
    ELSE "identity"

\* Imports one after the other, from an empty store.
ImportStep(payload) ==
    /\ import_view(payload)
    /\ reimport' = Reimport(payload)
    /\ UNCHANGED <<requests, streak, lastSelected, calls, base, earlier, torn>>

NextImport == \E payload \in ImportPayloads : ImportStep(payload)

SpecImport == Init /\ [][NextImport]_vars

\* One import of a batch into a store.
InitBatch ==
    /\ questions \in BatchStores
    /\ wrong = <<>>
    /\ current_test = Absent
    /\ last_results = Absent
    /\ clock = 0
    /\ request = [op |-> "none"]
    /\ response = [status |-> "none"]
    /\ requests = 0
    /\ streak = [id \in UpdateIds |-> 0]
    /\ lastSelected = [id \in UpdateIds |-> <<>>]
    /\ reimport = "no"
    /\ calls = [p \in Procs |-> Idle]
    /\ base = [questions |-> questions, wrong |-> wrong]
    /\ earlier = NoPair
    /\ torn = [questions |-> Json, wrong |-> Json]

NextBatch ==
    /\ request.op = "none"
    /\ \E payload \in BatchPayloads : import_view(payload)
    /\ UNCHANGED <<requests, history>>

SpecBatch == InitBatch /\ [][NextBatch]_vars

\* The inputs of the calls that overlap.
RaceSelections == {<<0>>, <<1>>}
RacePayloads == {PyList(<<QA1>>), PyList(<<QA2>>), PyList(<<QT1>>), PyList(<<NotMapping>>)}

\* The wrong-answer files the overlapping calls start from.
RaceWrong == {<<>>, update_wrong_answers(<<>>, <<"a">>, <<0, 1>>, FALSE, 0)}

\* Two update calls, each of their steps taken at any time, and after them two import
\* calls, likewise: from any of the files, the clock on a whole second or between two.
InitRace ==
    /\ questions \in BatchStores
    /\ wrong \in RaceWrong
    /\ current_test = Absent
    /\ last_results = Absent
    /\ clock \in {0, 1}
    /\ request = [op |-> "none"]
    /\ response = [status |-> "none"]
    /\ requests = 0
    /\ streak = [id \in UpdateIds |-> 0]
    /\ lastSelected = [id \in UpdateIds |-> <<>>]
    /\ reimport = "no"
    /\ calls = [p \in Procs |-> Idle]
    /\ base = [questions |-> questions, wrong |-> wrong]
    /\ earlier = NoPair
    /\ torn = [questions |-> Json, wrong |-> Json]

\* The file a call reads and writes, taken from a pair of the two files.
FileOf(p, files) == files[PathOf(calls[p].call)]

\* What the call p makes of a file when no other call runs between its steps.
Alone(p, file) ==
    IF calls[p].call.op = "update_wrong_answers"
    THEN update_wrong_answers(file, calls[p].call.question_id,
                              calls[p].call.selected_indices, calls[p].call.is_correct,
                              calls[p].now)
    ELSE IF import_questions(file, calls[p].call.raw_data).status = "ok"
         THEN import_questions(file, calls[p].call.raw_data).stored
         ELSE file

\* Two calls on the same file have both returned.
BothDone(p, q) ==
    /\ p # q
    /\ calls[p].pc = "done" /\ calls[q].pc = "done"
    /\ calls[p].call.op = calls[q].call.op

\* The call q had loaded the file when the call p opened it to save, and p had
\* returned when q opened it: both worked on the same snapshot, and q saved last.
SavedOverStale(p, q) ==
    /\ q \in calls[p].loadedAtOpen
    /\ p \in calls[q].returnedAtOpen

\* The change of the call p is missing from the file: q saved over the snapshot both
\* had loaded, and the file is what q alone makes of that snapshot, which is not what
\* q makes of the file p saved.
ChangeLost(p, q) ==
    /\ BothDone(p, q)
    /\ SavedOverStale(p, q)
    /\ FileOf(p, torn) = Json
    /\ FileOf(p, [questions |-> questions, wrong |-> wrong]) = Alone(q, FileOf(p, base))
    /\ FileOf(p, [questions |-> questions, wrong |-> wrong])
          # Alone(q, Alone(p, FileOf(p, base)))

\* A call `op` may begin: the first pair of calls are updates of the wrong answers,
\* the second pair are imports.
MayBegin(op) ==
    /\ earlier.op = (IF op = "update_wrong_answers" THEN "none" ELSE "update_wrong_answers")
    /\ \A q \in Procs : calls[q].pc # "idle" => calls[q].call.op = op

\* The two calls of the first pair have returned: a second pair may begin, on the
\* files as the first left them.
Return ==
    /\ earlier = NoPair
    /\ \A p \in Procs : calls[p].pc = "done"
    /\ earlier' = [op |-> calls[1].call.op,
                   lost |-> \E p, q \in Procs : ChangeLost(p, q)]
    /\ calls' = [p \in Procs |-> Idle]
    /\ base' = [questions |-> questions, wrong |-> wrong]
    /\ UNCHANGED <<questions, wrong, torn, current_test, last_results, clock,
                   request, response>>

RaceFrame == UNCHANGED <<requests, streak, lastSelected, reimport, base, earlier>>

NextRace ==
    \/ \E p \in Procs, question_id \in UpdateIds, selected_indices \in RaceSelections,
          is_correct \in BOOLEAN :
          /\ MayBegin("update_wrong_answers")
          /\ LoadWrong(p, question_id, selected_indices, is_correct) /\ RaceFrame
    \/ \E p \in Procs : ChangeWrong(p) /\ RaceFrame
    \/ \E p \in Procs, raw_data \in RacePayloads :
          /\ MayBegin("import_questions")
          /\ LoadQuestions(p, raw_data) /\ RaceFrame
    \/ \E p \in Procs : ChangeQuestions(p) /\ RaceFrame
    \/ \E p \in Procs : Open(p) /\ RaceFrame
    \/ \E p \in Procs : Write(p) /\ RaceFrame
    \/ Return /\ UNCHANGED <<requests, streak, lastSelected, reimport>>
    \/ Tick /\ RaceFrame /\ UNCHANGED <<calls, torn>>

SpecRace == InitRace /\ [][NextRace]_vars

\* The payloads of the shape specification: a list; objects whose questions or data
\* field holds a list or a mapping; objects without such a field (one of them a lone
\* raw question) or with another value in it; and values that are neither a list nor
\* an object.
ShapePayloads ==
    {PyList(<<QA1>>), PyList(<<QB>>),
     PyDict(<<Item(K_questions, PyList(<<QA2>>))>>),
     PyDict(<<Item(K_data, PyDict(<<Item(<<"k">>, QT1)>>))>>),
     QB,
     PyDict(<<>>),
     PyDict(<<Item(K_questions, PyInt(0))>>),
     PyDict(<<Item(K_questions, PyStr(<<"b", "a", "d">>))>>),
     PyDict(<<Item(K_data, PyInt(5))>>),
     NotMapping, PyInt(5), PyNone, PyBool(TRUE)}

\* Imports of payloads of any shape, one after the other.
NextShape ==
    /\ \E payload \in ShapePayloads : import_view(payload)
    /\ UNCHANGED <<requests, history>>

SpecShape == Init /\ [][NextShape]_vars

\* The raw questions of the normalization specification, each with two choices: a
\* text (plain, padded, blank or empty) under one of its three keys, an answer (an
\* index inside or outside the choices, true, a list, a choice's text, a letter) under one
\* of its four keys, and no id, an id, or an id with a padded domain and comment.
RawQuestions ==
    {PyDict(<<Item(text_key, PyStr(text)), Item(K_options, TwoChoices),
              Item(answer_key, answer)>> \o rest) :
        text_key \in {K_question, K_text, K_prompt},
        text \in {<<"Q">>, <<" ", "Q", " ">>, <<" ", " ">>, <<>>},
        answer_key \in {K_correct_answers, K_correct_answer, K_answer, K_answers},
        answer \in {PyInt(-1), PyInt(0), PyInt(1), PyInt(2), PyBool(TRUE),
                    PyList(<<PyInt(1), PyInt(0)>>), PyStr(<<"Y">>), PyStr(<<" ", "b">>)},
        rest \in {<<>>, <<Item(K_id, PyStr(<<"a">>))>>,
                  <<Item(K_uuid, PyInt(7)), Item(K_domain, PyStr(<<" ", "A">>)),
                    Item(K_explanation, PyStr(<<"c", " ">>))>>}}

\* normalize_question on a raw question.
NextNormalize ==
    /\ request.op = "none"
    /\ \E raw_question \in RawQuestions : Normalize(raw_question)
    /\ UNCHANGED <<requests, history>>

SpecNormalize == Init /\ [][NextNormalize]_vars

----------------------------------------------------------------------------
(* The properties. *)

\* C1: after any sequence of update_wrong_answers calls from an empty store, the
\* store holds a record for a question id exactly when an update was made for that
\* id and the most recent one was incorrect.
C1_RecordIffLastIncorrect ==
    \A id \in UpdateIds : HasRecord(wrong, id) <=> streak[id] > 0

\* A correct answer has just removed the record of one question while the other
\* question keeps its record.
C1_Witness ==
    /\ request.op = "update_wrong_answers"
    /\ request.is_correct /\ response.wrote
    /\ ~HasRecord(wrong, request.question_id)
    /\ \E id \in UpdateIds : HasRecord(wrong, id)

\* C2: the record's wrong_count is the number of incorrect updates for its id since
\* the last correct one (1 when the record is created, one more with each further
\* incorrect update), and its last_answer is the selection of the most recent
\* incorrect update.
C2_CountsConsecutiveMistakes ==
    \A id \in UpdateIds :
        HasRecord(wrong, id) =>
            /\ RecordOf(wrong, id).wrong_count = streak[id]
            /\ RecordOf(wrong, id).last_answer = lastSelected[id]

\* A second incorrect update in a row has just overwritten the answer of the first.
C2_Witness ==
    /\ request.op = "update_wrong_answers" /\ ~request.is_correct
    /\ HasRecord(wrong, request.question_id)
    /\ RecordOf(wrong, request.question_id).wrong_count = 2
    /\ RecordOf(wrong, request.question_id).last_answer = <<0, 1>>
    /\ streak[request.question_id] = 2

\* The indices a form holds for a question: its values as integers, without repeats.
ChosenSet(form, question) ==
    {ParseInt(form[question.id][j]).v : j \in DOMAIN form[question.id]}

\* C3: on a scored submit a question is marked correct exactly when the set of the
\* indices selected for it equals the set of its correct indices; a strict subset, a
\* strict superset and an empty selection are marked incorrect.
C3_ExactSetEquality ==
    (request.op = "submit_test" /\ response.status = "scored") =>
        \A i \in DOMAIN last_results.results :
            last_results.results[i].is_correct <=>
                ChosenSet(request.form, last_results.results[i].question)
                    = RangeOf(IntsOf(last_results.results[i].question.correct_answers))

\* A submit has marked one question correct on a selection with a repeated index and
\* another question incorrect on a strict superset of its correct indices.
C3_Witness ==
    /\ request.op = "submit_test" /\ response.status = "scored"
    /\ \E i, j \in DOMAIN last_results.results :
          /\ last_results.results[i].is_correct
          /\ Len(request.form[last_results.results[i].question.id]) = 3
          /\ ~last_results.results[j].is_correct
          /\ RangeOf(IntsOf(last_results.results[j].question.correct_answers))
                \subseteq ChosenSet(request.form, last_results.results[j].question)

\* C4: a scored submit clears the session, only new_test and review create one, and
\* a submit that finds no session answers "no active test", scores nothing and leaves
\* the wrong-answer store and last_results as they were.
C4_SecondSubmitFindsNoSession ==
    [][/\ (request'.op = "submit_test" /\ response'.status = "scored")
              => current_test' = Absent
       /\ (current_test = Absent /\ current_test' # Absent)
              => (request'.op \in {"new_test", "review"} /\ response'.status = "created")
       /\ (request'.op = "submit_test" /\ current_test = Absent)
              => /\ response'.status = "no_test"
                 /\ wrong' = wrong
                 /\ last_results' = last_results
                 /\ current_test' = Absent]_vars

\* A submit has found no session after an earlier submit was scored and recorded a
\* wrong answer.
C4_Witness ==
    /\ request.op = "submit_test" /\ response.status = "no_test"
    /\ last_results # Absent
    /\ wrong # <<>>

\* The raw record is one normalize_question accepts.
Valid(raw_question) == normalize_question(raw_question).status = "ok"

\* The records of a batch, each with its place and what normalize_question makes of it.
Normalized(payload) ==
    {<<i, normalize_question(payload.v[i])>> : i \in DOMAIN payload.v}

\* A batch of new unique questions: all valid, with different ids the store has not.
AllNew(stored, payload) ==
    /\ payload.t = "list"
    /\ \E batch \in {Normalized(payload)} :
          /\ \A one \in batch : one[2].status = "ok"
          /\ \A one, other \in batch : one[1] # other[1] => one[2].q.id # other[2].q.id
          /\ \A one \in batch, k \in DOMAIN stored : stored[k].id # one[2].q.id

\* The re-import of the batch of the last import counted no new question, counted
\* every question as updated and left the number of stored questions as it was.
OnlyUpdated ==
    /\ response'.status = "imported"
    /\ response'.imported = 0
    /\ response'.updated = Len(request'.payload.v)
    /\ Len(questions') = Len(questions)

\* C5 (as amended): an import of N new unique questions returns imported = N and
\* updated = 0; re-importing that batch with one field changed, the field being none
\* the id comes from (the explicit id, and the text of a question without one) and
\* every record still one that normalizes, returns imported = 0 and updated = N and
\* stores no more questions than before.
C5_UpsertCounts ==
    [][request'.op = "import_view" =>
          /\ AllNew(questions, request'.payload) =>
                response' = [status |-> "imported",
                             imported |-> Len(request'.payload.v), updated |-> 0]
          /\ (reimport' = "field" /\ \A i \in DOMAIN request'.payload.v :
                                        Valid(request'.payload.v[i]))
                => OnlyUpdated]_vars

\* C5 (as claimed): re-importing the batch with any one field changed returns
\* imported = 0 and updated = N, also for questions without explicit id. The text of
\* such a question changed, an explicit id changed, and answers changed to none of
\* the choices each give other counts.
C5_AnyFieldChanged ==
    [][(request'.op = "import_view" /\ reimport' # "no") => OnlyUpdated]_vars

\* A batch of two questions, one of them without id, has been imported again with
\* one field changed, none an id comes from, and both were counted as updated.
C5_Witness ==
    /\ request.op = "import_view" /\ reimport = "field"
    /\ response.imported = 0 /\ response.updated = 2
    /\ \E i \in DOMAIN request.payload.v :
          K_text \in IdentityKeys(request.payload.v[i])

\* C6: a malformed record in a batch (no text, fewer than two choices, no resolvable
\* answer, not a mapping) never aborts the import: the import completes, the valid
\* records are stored and imported + updated is their number.
C6_MalformedNeverAborts ==
    (request.op = "import_view" /\ request.payload.t = "list") =>
        /\ response.status = "imported"
        /\ response.imported + response.updated
              = Cardinality({i \in DOMAIN request.payload.v : Valid(request.payload.v[i])})
        /\ \A i \in DOMAIN request.payload.v :
              Valid(request.payload.v[i]) =>
                  \E k \in DOMAIN questions :
                      questions[k].id = normalize_question(request.payload.v[i]).q.id

\* C7: after any sequence of imports from an empty store, no two stored questions
\* have the same id, and the correct_answers of each are a non-empty list of indices
\* of its choices.
C7_StoredQuestionsWellFormed ==
    \A i \in DOMAIN questions :
        /\ \A j \in DOMAIN questions : i # j => questions[i].id # questions[j].id
        /\ questions[i].correct_answers # <<>>
        /\ \A k \in DOMAIN questions[i].correct_answers :
              IntOf(questions[i].correct_answers[k]) \in 0..(Len(questions[i].choices) - 1)

\* An import has skipped a record whose answers are no index of its choices, and the
\* store holds two questions, one under the id derived from its text, whose raw
\* answers named an index its choices do not have beside one they have.
C7_Witness ==
    /\ request.op = "import_view" /\ response.status = "imported"
    /\ \E k \in DOMAIN request.payload.v :
          /\ Truthy(Get(request.payload.v[k], K_correct_answer))
          /\ normalize_question(request.payload.v[k]).status = "ValueError"
    /\ Len(questions) = 2
    /\ \E i \in DOMAIN questions :
          /\ questions[i].id = DerivedId(<<"Q", "t">>)
          /\ questions[i].correct_answers = <<PyInt(1)>>

\* The last request has created a session.
SessionCreated ==
    request.op \in {"new_test", "review"} /\ response.status = "created"

\* The pool the last request sampled from: the stored questions of the domain asked
\* for, or the stored questions with a wrong-answer record.
CreatedPool ==
    IF request.op = "new_test" THEN Filtered(questions, request.domain)
    ELSE SelectSeq(questions, LAMBDA q : HasRecord(wrong, q.id))

\* The count the last request asked for.
RequestedCount == RequestedTotal(request.total)

\* The session's questions are questions of the pool, none of them twice.
SampledFromPool ==
    /\ \A i \in DOMAIN current_test.questions :
          current_test.questions[i] \in RangeOf(CreatedPool)
    /\ \A i, j \in DOMAIN current_test.questions :
          i # j => current_test.questions[i] # current_test.questions[j]

\* C8 (as amended): a created session holds len(pool) questions when the requested
\* count is above len(pool), the full pool when it is 0, exactly one question when
\* it is negative, and the requested count otherwise; its questions are members of
\* the pool, none twice.
C8_SessionSize ==
    SessionCreated =>
        /\ RequestedCount > Len(CreatedPool) => Len(current_test.questions) = Len(CreatedPool)
        /\ RequestedCount = 0 => Len(current_test.questions) = Len(CreatedPool)
        /\ RequestedCount < 0 => Len(current_test.questions) = 1
        /\ (RequestedCount >= 1 /\ RequestedCount <= Len(CreatedPool))
              => Len(current_test.questions) = RequestedCount
        /\ SampledFromPool

\* C8 (as claimed): a requested count of zero or less gives the full pool.
C8_FullPoolWhenNotPositive ==
    SessionCreated =>
        /\ RequestedCount > Len(CreatedPool) => Len(current_test.questions) = Len(CreatedPool)
        /\ RequestedCount <= 0 => Len(current_test.questions) = Len(CreatedPool)
        /\ (RequestedCount >= 1 /\ RequestedCount <= Len(CreatedPool))
              => Len(current_test.questions) = RequestedCount
        /\ SampledFromPool

\* A session of one question has been created from a pool of two on a negative count.
C8_Witness ==
    /\ SessionCreated
    /\ RequestedCount < 0
    /\ Len(CreatedPool) = 2
    /\ Len(current_test.questions) = 1

\* C9: a review session is created exactly when some stored question has a
\* wrong-answer record, it is a review-mode session whose questions are stored
\* questions with a record at that moment, and on a count of 0 they are all of them.
C9_ReviewPoolIsRecordedQuestions ==
    request.op = "review" =>
        /\ response.status = "created"
              <=> \E i \in DOMAIN questions : HasRecord(wrong, questions[i].id)
        /\ response.status = "created" =>
              /\ current_test.mode = "review"
              /\ \A i \in DOMAIN current_test.questions :
                    /\ current_test.questions[i] \in RangeOf(questions)
                    /\ HasRecord(wrong, current_test.questions[i].id)
              /\ RequestedCount = 0 =>
                    RangeOf(current_test.questions)
                        = {q \in RangeOf(questions) : HasRecord(wrong, q.id)}

\* A review session has been created on a count of 0 while a stored question has no
\* record, after a submit that was scored.
C9_Witness ==
    /\ request.op = "review" /\ response.status = "created"
    /\ RequestedCount = 0
    /\ last_results # Absent
    /\ \E i \in DOMAIN questions : ~HasRecord(wrong, questions[i].id)

\* C10: the session's questions change only when a session is created or a submit
\* is scored, so an import leaves them as they are; a scored submit reports the
\* session's own copies and marks each against the correct answers of its copy.
C10_SessionIsSnapshot ==
    [][/\ request'.op = "import_view" => current_test' = current_test
       /\ current_test' # current_test =>
              \/ request'.op \in {"new_test", "review"} /\ response'.status = "created"
              \/ request'.op = "submit_test" /\ response'.status = "scored"
       /\ (request'.op = "submit_test" /\ response'.status = "scored") =>
              /\ Len(last_results'.results) = Len(current_test.questions)
              /\ \A i \in DOMAIN current_test.questions :
                    /\ last_results'.results[i].question = current_test.questions[i]
                    /\ RangeOf(IntsOf(last_results'.results[i].correct_answers))
                          = RangeOf(IntsOf(current_test.questions[i].correct_answers))
                    /\ last_results'.results[i].is_correct
                          <=> ChosenSet(request'.form, current_test.questions[i])
                                = RangeOf(IntsOf(current_test.questions[i].correct_answers))]_vars

\* A submit has been scored on a question whose stored version has other correct
\* answers than the session's copy: an import overwrote it after the session began.
C10_Witness ==
    /\ request.op = "submit_test" /\ response.status = "scored"
    /\ \E i \in DOMAIN last_results.results, k \in DOMAIN questions :
          /\ questions[k].id = last_results.results[i].question.id
          /\ questions[k].correct_answers
                # last_results.results[i].question.correct_answers

\* C11: when two update calls, or two import calls, have overlapped so that both
\* loaded the file before either saved it, and one save was complete before the
\* other began, the file holds what the call that saved last makes of that snapshot
\* alone, so the change of the other call is missing; when one call returned before
\* the other began, the file holds the changes of both, one made on top of the other.
C11_LaterSaveWins ==
    \A p, q \in Procs :
        BothDone(p, q) =>
            /\ p \in calls[q].returnedAtLoad
                  => /\ FileOf(p, torn) = Json
                     /\ FileOf(p, [questions |-> questions, wrong |-> wrong])
                           = Alone(q, Alone(p, FileOf(p, base)))
            /\ SavedOverStale(p, q)
                  => /\ FileOf(p, torn) = Json
                     /\ FileOf(p, [questions |-> questions, wrong |-> wrong])
                           = Alone(q, FileOf(p, base))

\* Two update calls have overlapped and the change of one was lost; then two imports
\* of one new question each, one of them without explicit id, have overlapped on the
\* empty questions file: both loaded it before either saved, both have saved and
\* returned, and the file holds the question of the one that saved last only.
C11_Witness ==
    /\ earlier = [op |-> "update_wrong_answers", lost |-> TRUE]
    /\ wrong # <<>>
    /\ \E p, q \in Procs :
          /\ ChangeLost(p, q)
          /\ calls[p].call.op = "import_questions"
          /\ base.questions = <<>>
          /\ Len(calls[p].data) = 1 /\ Len(calls[q].data) = 1
          /\ calls[p].data[1].id = DerivedId(<<"Q", "t">>)
          /\ calls[q].data[1].id # calls[p].data[1].id
          /\ questions = calls[q].data

\* Whether a value is a list or a mapping.
IsCollection(x) == x.t \in {"list", "dict"}

\* The payload has none of the shapes an import accepts: it is not a list, and not an
\* object whose questions or data field holds a list or a mapping.
Unrecognized(payload) ==
    /\ payload.t # "list"
    /\ payload.t = "dict" =>
          /\ ~IsCollection(Get(payload, K_questions))
          /\ ~IsCollection(Get(payload, K_data))

\* C12: an import of a payload of an unrecognized top-level shape fails with a format
\* error and leaves the question store exactly as it was.
C12_UnrecognizedShapeFails ==
    [][(request'.op = "import_view" /\ Unrecognized(request'.payload))
          => (response'.status = "format_error" /\ questions' = questions)]_vars

\* C13: for every raw question normalize_question accepts, normalize_question of its
\* own output succeeds and returns that same question, also for a text with
\* surrounding whitespace and for a text of whitespace only.
C13_NormalizeIdempotent ==
    (request.op = "normalize_question" /\ response.status = "ok") =>
        (response.again.status = "ok" /\ response.again.q = response.q)

\* The values a raw question holds under the given keys.
Given(raw_question, keys) ==
    {raw_question.v[j].v : j \in {i \in DOMAIN raw_question.v : raw_question.v[i].k \in keys}}

\* The raw question gives its correct answer as the single integer index i, not
\* wrapped in a list, and has a text.
SingleIndex(raw_question, i) ==
    /\ Given(raw_question, {K_correct_answers, K_correct_answer, K_answer, K_answers})
          = {PyInt(i)}
    /\ \A text \in Given(raw_question, {K_question, K_text, K_prompt}) : Truthy(text)

\* C18: a raw question whose correct answer is a single integer index i normalizes
\* with correct_answers = [i] for every i from 0 to len(choices) - 1, 0 included, and
\* fails for every other integer.
C18_SingleIntegerIndex ==
    \A i \in -1..2 :
        (request.op = "normalize_question" /\ SingleIndex(request.raw_question, i)) =>
            IF /\ 0 <= i
               /\ \A choices \in Given(request.raw_question, {K_choices, K_options}) :
                     i < Len(choices.v)
            THEN response.status = "ok" /\ response.q.correct_answers = <<PyInt(i)>>
            ELSE response.status = "ValueError"

\* How a handler reports that there is nothing to build a session from: the flash of
\* new_test or review on an empty pool, and the one of new_test on an empty store.
NothingAvailable == {"nothing_available", "no_questions"}

\* No stored question has exactly the domain the form asks for.
NoneOfDomain(domain_field) ==
    \A k \in DOMAIN questions :
        Truthy(domain_field) /\ questions[k].domain # domain_field.v

\* No stored question has a wrong-answer record.
NoneToReview == \A k \in DOMAIN questions : ~HasRecord(wrong, questions[k].id)

\* C14: every question of a session created with a domain filter has exactly that
\* domain; when the filtered pool, or the review pool, is empty, the request is
\* answered with the nothing-available condition, creates no session, and leaves the
\* session that was active and the last results as they were.
C14_DomainFilterAndEmptyPool ==
    [][/\ (request'.op = "new_test" /\ response'.status = "created"
              /\ Truthy(request'.domain))
          => \A i \in DOMAIN current_test'.questions :
                current_test'.questions[i].domain = request'.domain.v
       /\ (\/ request'.op = "new_test" /\ NoneOfDomain(request'.domain)
           \/ request'.op = "review" /\ NoneToReview)
          => /\ response'.status \in NothingAvailable
             /\ current_test' = current_test
             /\ last_results' = last_results]_vars

\* A request for a test on a domain no stored question has, written in another case
\* than the stored one, has been answered with nothing available while a session was
\* active and results were held.
C14_Witness ==
    /\ request.op = "new_test" /\ response.status = "nothing_available"
    /\ Truthy(request.domain)
    /\ \E k \in DOMAIN questions : StrLower(questions[k].domain) = StrLower(request.domain.v)
    /\ current_test # Absent
    /\ last_results # Absent

\* The request of this step is a submit that was scored.
SubmitScored == request'.op = "submit_test" /\ response'.status = "scored"

\* The request of this step created a session or showed the results page.
CreatedOrViewed ==
    \/ request'.op \in {"new_test", "review"} /\ response'.status = "created"
    \/ request'.op = "show_results" /\ response'.status = "page"

\* C15 (as amended): last_results goes from absent to present only by a scored
\* submit and stays present afterwards; creating the next session and viewing the
\* results leave the results held as they are, and only the next scored submit
\* puts other results in their place.
C15_HeldUntilNextSubmit ==
    [][/\ (last_results = Absent /\ last_results' # Absent) => SubmitScored
       /\ last_results # Absent => last_results' # Absent
       /\ last_results' # last_results => SubmitScored
       /\ CreatedOrViewed => last_results' = last_results]_vars

\* C15 (as claimed): after the next session is created, and after the results are
\* viewed, the results are no longer held.
C15_ClearedByCreateOrView ==
    [][/\ (last_results = Absent /\ last_results' # Absent) => SubmitScored
       /\ (CreatedOrViewed /\ requests' # requests) => last_results' = Absent]_vars

\* The results of a submit are still held after a next session was created and the
\* results page was shown.
C15_Witness ==
    /\ request.op = "show_results" /\ response.status = "page"
    /\ last_results # Absent
    /\ current_test # Absent

\* The records of a batch that normalize, each with its place in the batch.
Accepted(payload) == {one \in Normalized(payload) : one[2].status = "ok"}

\* The accepted records that are the last of the batch with their id.
LastOfId(accepted) ==
    {one \in accepted :
        \A other \in accepted : other[2].q.id = one[2].q.id => other[1] <= one[1]}

\* C16: an import removes no stored question and leaves every stored question whose
\* id is not among the batch's normalized records as it was; a stored question whose
\* id is among them is replaced in full by the last such record; and the number of
\* stored questions grows by exactly the returned imported count.
C16_ImportFrame ==
    [][(request'.op = "import_view" /\ response'.status = "imported"
            /\ request'.payload.t = "list") =>
          \E accepted \in {Accepted(request'.payload)} :
            /\ \A k \in DOMAIN questions :
                  \E j \in DOMAIN questions' : questions'[j].id = questions[k].id
            /\ \A k \in DOMAIN questions :
                  (\A one \in accepted : one[2].q.id # questions[k].id)
                      => \E j \in DOMAIN questions' : questions'[j] = questions[k]
            /\ \A one \in LastOfId(accepted), j \in DOMAIN questions' :
                  questions'[j].id = one[2].q.id => questions'[j] = one[2].q
            /\ \A one \in accepted :
                  \E j \in DOMAIN questions' : questions'[j].id = one[2].q.id
            /\ Len(questions') = Len(questions) + response'.imported]_vars

\* An import of two records with the text of a stored question without explicit id,
\* the second of which does not normalize, has counted one update: the store holds
\* the first record's question under the derived id, the last that normalized, and
\* another question beside it.
C16_Witness ==
    /\ request.op = "import_view" /\ response.status = "imported"
    /\ response.imported = 0 /\ response.updated = 1
    /\ Len(request.payload.v) = 2
    /\ Get(request.payload.v[1], K_text) = Get(request.payload.v[2], K_text)
    /\ normalize_question(request.payload.v[1]).status = "ok"
    /\ normalize_question(request.payload.v[2]).status = "ValueError"
    /\ Len(questions) = 2
    /\ \E j \in DOMAIN questions :
          /\ questions[j] = normalize_question(request.payload.v[1]).q
          /\ questions[j].id = DerivedId(Get(request.payload.v[1], K_text).v)
          /\ questions[j].comment = <<"d">>

\* The questions of a session have different ids.
DistinctIds(test) ==
    \A i, j \in DOMAIN test.questions :
        i # j => test.questions[i].id # test.questions[j].id

\* The form answers a question incorrectly: the indices it holds for the question are
\* not exactly the question's correct indices.
AnsweredIncorrectly(form, question) ==
    ChosenSet(form, question) # RangeOf(IntsOf(question.correct_answers))

\* C17: after a submit of a session whose questions have different ids, from whatever
\* wrong-answer store, each question of the session has a wrong-answer record exactly
\* when this submit answered it incorrectly; correct_count is the number of questions
\* marked correct, total_questions is the length of the session and at least 1, and
\* the results list the session's questions in the session's order.
C17_SubmitOutcome ==
    [][(request'.op = "submit_test" /\ response'.status = "scored"
            /\ DistinctIds(current_test)) =>
          /\ \A i \in DOMAIN current_test.questions :
                HasRecord(wrong', current_test.questions[i].id)
                    <=> AnsweredIncorrectly(request'.form, current_test.questions[i])
          /\ last_results'.correct_count
                = Cardinality({i \in DOMAIN last_results'.results :
                                  last_results'.results[i].is_correct})
          /\ last_results'.total_questions = Len(current_test.questions)
          /\ last_results'.total_questions >= 1
          /\ Len(last_results'.results) = Len(current_test.questions)
          /\ \A i \in DOMAIN current_test.questions :
                last_results'.results[i].question = current_test.questions[i]]_vars

\* A session of two questions has been submitted with one answered correctly and one
\* incorrectly: the score is 50.00, the store holds one record, the one of the
\* question answered incorrectly, and it is not the first mistake on that question.
C17_Witness ==
    /\ request.op = "submit_test" /\ response.status = "scored"
    /\ last_results.total_questions = 2 /\ last_results.correct_count = 1
    /\ last_results.score = 5000
    /\ Len(wrong) = 1
    /\ wrong[1].wrong_count = 2
    /\ \E i \in DOMAIN last_results.results :
          /\ ~last_results.results[i].is_correct
          /\ last_results.results[i].question.id = wrong[1].question_id

\* C19: in every state serial update_wrong_answers calls reach from an empty store,
\* the store holds at most one record for a question id and every record has a
\* wrong_count of at least 1.
C19_OneRecordPerIdCountAtLeastOne ==
    \A i \in DOMAIN wrong :
        /\ \A j \in DOMAIN wrong : i # j => wrong[i].question_id # wrong[j].question_id
        /\ wrong[i].wrong_count >= 1

\* The store holds records for two questions, one of them created by the last call
\* and one counting two mistakes.
C19_Witness ==
    /\ request.op = "update_wrong_answers" /\ ~request.is_correct
    /\ Len(wrong) = 2
    /\ RecordOf(wrong, request.question_id).wrong_count = 1
    /\ \E i \in DOMAIN wrong : wrong[i].wrong_count = 2

\* This step is a call of update_wrong_answers (time does not pass within a call).
UpdateCalled == request'.op = "update_wrong_answers" /\ clock' = clock

\* C20: a call of update_wrong_answers for a question id leaves the records of every
\* other id as they were (wrong_count, last_attempt and last_answer), and a correct
\* update for an id without record leaves the whole store as it was and does not
\* write it.
C20_OtherRecordsUntouched ==
    [][UpdateCalled =>
          /\ \A i \in DOMAIN wrong :
                wrong[i].question_id # request'.question_id
                    => \E j \in DOMAIN wrong' : wrong'[j] = wrong[i]
          /\ \A j \in DOMAIN wrong' :
                wrong'[j].question_id # request'.question_id
                    => \E i \in DOMAIN wrong : wrong[i] = wrong'[j]
          /\ (request'.is_correct /\ ~HasRecord(wrong, request'.question_id))
                => (wrong' = wrong /\ ~response'.wrote)]_vars

\* A correct update of a question that had a record has removed it, at a later time
\* than the one the record of the other question was written at, and that record,
\* which counts two mistakes, is still there.
C20_Witness ==
    /\ request.op = "update_wrong_answers" /\ request.is_correct
    /\ response.wrote
    /\ clock = 1
    /\ Len(wrong) = 1
    /\ wrong[1].question_id # request.question_id
    /\ wrong[1].wrong_count = 2 /\ wrong[1].last_attempt = 0

====
